---- MODULE Spec2Model ----
(***************************************************************************)
(* A model of qcodes/dataset/measurements.py: the Measurement (parameter   *)
(* registration, write period), the Runner context manager and the         *)
(* DataSaver (add_result, validation, flattening, buffered flushes).       *)
(*                                                                         *)
(* InterDependencies_ and ParamSpecBase live in qcodes/dataset, outside    *)
(* the files at hand; the graph operations (Extend, Remove, lookup,        *)
(* ValidateSubset) follow their description in the specification.          *)
(***************************************************************************)
EXTENDS Integers, Sequences, FiniteSets, TLC

VARIABLES
    heap,             \* object store: reference -> InterDependencies_ value
    mInterdeps,       \* Measurement._interdeps (a reference into heap)
    mWritePeriod,     \* Measurement._write_period (None or a float)
    mLast,            \* the last Measurement call: arguments, outcome, state before
    mOps,             \* number of Measurement calls made (bounded)
    rState,           \* Runner: "none" | "created" | "entered" | "exited" | "failed"
    rInterdeps,       \* Runner._interdependencies (a reference, 0 before run())
    rGraphAtRun,      \* the graph value the Runner was handed by run()
    rWritePeriod,     \* Runner.write_period
    dsWritePeriod,    \* DataSaver.write_period
    dsResults,        \* DataSaver._results: the pending buffer
    dsLastSaveTime,   \* DataSaver._last_save_time
    dsSink,           \* the Records the DataSet received through add_results
    dsSinkState,      \* the DataSet: "none" | "started" | "completed"
    dsEvents,         \* the calls the last Runner / DataSaver method made on the DataSet, in order
    now,              \* monotonic(), in clock ticks of 1 ms
    sLast,            \* the last DataSaver / Runner call: arguments, outcome, state before
    sCalls,           \* number of add_result calls made (bounded)
    gProduced,        \* history: the Records of the accepted add_result calls
    gLastFlush,       \* history: when flush_data_to_database last ran (or the DataSaver was made)
    gLastTriggered,   \* history: when add_result last ran a flush (or the DataSaver was made)
    gFlushFailed,     \* history: some flush of this session failed
    gFailedBuffer     \* history: the buffer the last failed flush left, until a flush succeeds

measVars == <<heap, mInterdeps, mWritePeriod, mLast, mOps>>
runnerVars == <<rState, rInterdeps, rGraphAtRun, rWritePeriod>>
saverVars == <<dsWritePeriod, dsResults, dsLastSaveTime, dsSink, dsSinkState,
               dsEvents, sLast, sCalls, gProduced, gLastFlush, gLastTriggered,
               gFlushFailed, gFailedBuffer>>

vars == <<measVars, runnerVars, saverVars, now>>

----------------------------------------------------------------------------
(* Bounds of the model *)

\* Measurement calls explored by SpecMeas
MaxOps == 3

\* longest setpoints / basis argument of a registration
MaxEdges == 2

\* add_result calls explored in one session
MaxCalls == 2

\* clock ticks explored in one session
MaxTime == 3

----------------------------------------------------------------------------
(* Sequence helpers *)

Range(s) == {s[i] : i \in DOMAIN s}

\* sequences over S of length at most n without repetition
RECURSIVE DistinctSeqs(_, _)
DistinctSeqs(S, n) ==
    IF n = 0 THEN {<<>>}
    ELSE LET shorter == DistinctSeqs(S, n - 1)
         IN shorter \cup
            UNION {{Append(s, x) : x \in S \ Range(s)} : s \in shorter}

\* s without the repeated occurrences of an element (the first one is kept)
RECURSIVE Dedup(_)
Dedup(s) ==
    IF s = <<>> THEN <<>>
    ELSE LET front == Dedup(SubSeq(s, 1, Len(s) - 1))
             x == s[Len(s)]
         IN IF x \in Range(front) THEN front ELSE Append(front, x)

\* s without every occurrence of x
RECURSIVE Without(_, _)
Without(s, x) ==
    IF s = <<>> THEN <<>>
    ELSE IF Head(s) = x THEN Without(Tail(s), x)
         ELSE <<Head(s)>> \o Without(Tail(s), x)

\* the function f with key k bound to v
Bind(f, k, v) == [p \in DOMAIN f \cup {k} |-> IF p = k THEN v ELSE f[p]]

\* the function f restricted to the keys in S
Restrict(f, S) == [p \in DOMAIN f \cap S |-> f[p]]

----------------------------------------------------------------------------
(* ParamSpecBase: a Variable. Equality is structural: name, storage class, *)
(* label and unit.                                                         *)

ParamSpecBase(name, paramtype, label, unit) ==
    [name |-> name, type |-> paramtype, label |-> label, unit |-> unit]

NoParamSpec == ParamSpecBase("", "", "", "")

----------------------------------------------------------------------------
(* InterDependencies_: the dependency graph, an immutable value.           *)
(*   dependencies : dependent Variable -> tuple of its setpoint Variables  *)
(*   inferences   : derived Variable   -> tuple of its basis Variables     *)
(*   standalones  : the Variables without edges                            *)

EmptyFcn == [p \in {} |-> <<>>]

InterDependencies(deps, infs, stds) ==
    [dependencies |-> deps, inferences |-> infs, standalones |-> stds]

EmptyInterDependencies == InterDependencies(EmptyFcn, EmptyFcn, {})

TreeLeafs(tree) == UNION {Range(tree[p]) : p \in DOMAIN tree}

\* every Variable with an edge in g
Linked(g) ==
    DOMAIN g.dependencies \cup TreeLeafs(g.dependencies) \cup
    DOMAIN g.inferences \cup TreeLeafs(g.inferences)

\* every Variable g mentions
Mentioned(g) == Linked(g) \cup g.standalones

\* _id_to_paramspec: the lookup of a Variable by name. A name held by two
\* Variables resolves to the one entered last (standalones after the trees).
IdToParamspec(g) ==
    LET names == {p.name : p \in Mentioned(g)}
        pick(n) ==
            IF \E p \in g.standalones : p.name = n
            THEN CHOOSE p \in g.standalones : p.name = n
            ELSE CHOOSE p \in Linked(g) : p.name = n
    IN [n \in names |-> pick(n)]

\* membership lookup: is the Variable ps a known Variable of g
IsKnown(g, ps) ==
    /\ ps.name \in DOMAIN IdToParamspec(g)
    /\ IdToParamspec(g)[ps.name] = ps

\* the outcome of a graph operation: the new graph, or the error raised
Graph(g) == [err |-> "none", g |-> g]
GraphError(e) == [err |-> e, g |-> EmptyInterDependencies]

\* extend(dependencies, inferences, standalones): a new graph with the edges
\* merged in, or SchemaError when an edge references a Variable the graph
\* does not know or the dependents and standalones given overlap.
Extend(g, newDeps, newInfs, newStds) ==
    LET leafs == TreeLeafs(newDeps) \cup TreeLeafs(newInfs)
        roots == DOMAIN newDeps \cup DOMAIN newInfs
        merge(tree, new) ==
            [p \in DOMAIN tree \cup DOMAIN new |->
                Dedup((IF p \in DOMAIN tree THEN tree[p] ELSE <<>>) \o
                      (IF p \in DOMAIN new THEN new[p] ELSE <<>>))]
        deps == merge(g.dependencies, newDeps)
        infs == merge(g.inferences, newInfs)
        linked == DOMAIN deps \cup TreeLeafs(deps) \cup
                  DOMAIN infs \cup TreeLeafs(infs)
    IN IF \E p \in leafs : ~IsKnown(g, p) THEN GraphError("SchemaError")
       ELSE IF roots \cap newStds # {} THEN GraphError("SchemaError")
       ELSE Graph(InterDependencies(deps, infs,
                                    (g.standalones \cup newStds) \ linked))

\* remove(variable): a new graph without the Variable and without every
\* edge mentioning it; a Variable left without edges is a standalone.
Remove(g, ps) ==
    LET strip(tree) ==
            LET kept == {p \in DOMAIN tree \ {ps} : Without(tree[p], ps) # <<>>}
            IN [p \in kept |-> Without(tree[p], ps)]
        deps == strip(g.dependencies)
        infs == strip(g.inferences)
        linked == DOMAIN deps \cup TreeLeafs(deps) \cup
                  DOMAIN infs \cup TreeLeafs(infs)
    IN Graph(InterDependencies(deps, infs, (Mentioned(g) \ {ps}) \ linked))

----------------------------------------------------------------------------
(* Floats: a write period is None, a number (held in microseconds) or NaN; *)
(* a value that is no number at all is given as "str".                     *)

None == [t |-> "none", v |-> 0]
Float(us) == [t |-> "num", v |-> us]
NaN == [t |-> "nan", v |-> 0]
NotANumber == [t |-> "str", v |-> 0]

\* a < b and a > b on floats: every comparison with NaN is false
FloatLT(a, b) == a.t = "num" /\ b.t = "num" /\ a.v < b.v
FloatGT(a, b) == a.t = "num" /\ b.t = "num" /\ a.v > b.v
FloatGE(a, b) == a.t = "num" /\ b.t = "num" /\ a.v >= b.v

\* 1e-3 s, the floor of the write period, in microseconds
MinWritePeriod == 1000

\* 5.0 s, the write period of a Runner that was given none, in microseconds
DefaultWritePeriod == 5000000

----------------------------------------------------------------------------
(* Measurement *)

\* Measurement.write_period (setter): the outcome and the value stored
WritePeriodSetter(old, wp) ==
    IF wp.t \notin {"num", "nan"}
    THEN [err |-> "ValueError: must be a number", wp |-> old]
    ELSE IF FloatLT(wp, Float(MinWritePeriod))
         THEN [err |-> "ValueError: at least 1 ms", wp |-> old]
         ELSE [err |-> "none", wp |-> wp]

\* the look-up loop of _paramspecbase_from_strings over one list of names:
\* the Variables found, or found = FALSE at the first unknown name
RECURSIVE LookupAll(_, _)
LookupAll(g, names) ==
    IF names = <<>> THEN [found |-> TRUE, ps |-> <<>>]
    ELSE IF Head(names) \notin DOMAIN IdToParamspec(g)
         THEN [found |-> FALSE, ps |-> <<>>]
         ELSE LET rest == LookupAll(g, Tail(names))
              IN [found |-> rest.found,
                  ps |-> <<IdToParamspec(g)[Head(names)]>> \o rest.ps]

\* a look-up that passes over the names it does not find
ParamspecbaseFromStringsLenient(g, setpoints, basis) ==
    LET known(names) == SelectSeq(names, LAMBDA n : n \in DOMAIN IdToParamspec(g))
    IN [err |-> "none",
        depends_on |-> LookupAll(g, known(setpoints)).ps,
        inf_from |-> LookupAll(g, known(basis)).ps]

\* Measurement._paramspecbase_from_strings
ParamspecbaseFromStrings(g, setpoints, basis) ==
    LET sp == LookupAll(g, setpoints)
        bs == LookupAll(g, basis)
    IN IF ~sp.found
       THEN [err |-> "ValueError: Unknown setpoint",
             depends_on |-> <<>>, inf_from |-> <<>>]
       ELSE IF ~bs.found
            THEN [err |-> "ValueError: Unknown basis parameter",
                  depends_on |-> <<>>, inf_from |-> <<>>]
            ELSE [err |-> "none", depends_on |-> sp.ps, inf_from |-> bs.ps]

\* a guard that compares the storage class alone
ParamConflictTypeOnly(parameter, paramspec) ==
    parameter # NoParamSpec /\ parameter.type # paramspec.type

\* a guard that compares the names alone, and so never fires
ParamConflictNameOnly(parameter, paramspec) ==
    parameter # NoParamSpec /\ parameter.name # paramspec.name

\* the guard of _register_parameter against a second, different Variable
\* under a registered name (parameter is NoParamSpec when the name is free)
ParamConflict(parameter, paramspec) ==
    parameter # NoParamSpec /\ parameter # paramspec

\* the three extend calls of _register_parameter, each assigning
\* self._interdeps; an error leaves the assignments made before it
ExtendInterdeps(g, paramspec, depends_on, inf_from) ==
    LET g1 == IF depends_on # <<>>
              THEN Extend(g, [p \in {paramspec} |-> depends_on], EmptyFcn, {})
              ELSE Graph(g)
        g2 == IF g1.err # "none" THEN g1
              ELSE IF inf_from # <<>>
                   THEN Extend(g1.g, EmptyFcn,
                               [p \in {paramspec} |-> inf_from], {})
                   ELSE g1
        g3 == IF g2.err # "none" THEN g2
              ELSE IF depends_on = <<>> /\ inf_from = <<>>
                   THEN Extend(g2.g, EmptyFcn, EmptyFcn, {paramspec})
                   ELSE g2
    IN IF g1.err # "none" THEN [err |-> g1.err, g |-> g, assigned |-> FALSE]
       ELSE IF g2.err # "none"
            THEN [err |-> g2.err, g |-> g1.g, assigned |-> depends_on # <<>>]
            ELSE IF g3.err # "none"
                 THEN [err |-> g3.err, g |-> g, assigned |-> FALSE]
                 ELSE [err |-> "none", g |-> g3.g, assigned |-> TRUE]

\* Measurement._register_parameter: the outcome and the graph afterwards
RegisterParameter(g, name, label, unit, setpoints, basis, paramtype) ==
    LET parameter == IF name \in DOMAIN IdToParamspec(g)
                     THEN IdToParamspec(g)[name] ELSE NoParamSpec
        paramspec == ParamSpecBase(name, paramtype, label, unit)
        looked == ParamspecbaseFromStrings(g, setpoints, basis)
    IN IF ParamConflict(parameter, paramspec)
       THEN [err |-> "ValueError: Parameter already registered",
             g |-> g, assigned |-> FALSE]
       ELSE IF looked.err # "none"
            THEN [err |-> looked.err, g |-> g, assigned |-> FALSE]
            ELSE ExtendInterdeps(g, paramspec,
                                 looked.depends_on, looked.inf_from)

\* the graph without the Variable computed, but never assigned
UnregisterParameterDiscarded(g, param) ==
    [err |-> "none", g |-> g, assigned |-> FALSE]

\* Measurement.unregister_parameter: the outcome and the graph afterwards
UnregisterParameter(g, param) ==
    IF param \notin DOMAIN IdToParamspec(g)
    THEN [err |-> "none", g |-> g, assigned |-> FALSE]
    ELSE LET removed == Remove(g, IdToParamspec(g)[param])
         IN IF removed.err # "none"
            THEN [err |-> removed.err, g |-> g, assigned |-> FALSE]
            ELSE [err |-> "none", g |-> removed.g, assigned |-> TRUE]

\* the references an InterDependencies_ object can be held under
Refs == {1, 2}

\* the graph object updated in place instead
AssignInterdepsInPlace(h, mref, rref, g) ==
    [heap |-> [h EXCEPT ![mref] = g], ref |-> mref]

\* self._interdeps = <a new graph>: the attribute is bound to a new object;
\* an object the Runner holds stays as it is
AssignInterdeps(h, mref, rref, g) ==
    LET r == IF mref = rref THEN CHOOSE x \in Refs : x # rref ELSE mref
    IN [heap |-> [h EXCEPT ![r] = g], ref |-> r]

\* Runner.__init__: the write period of the Runner
RunnerWritePeriod(write_period) ==
    IF write_period.t = "none" THEN Float(DefaultWritePeriod) ELSE write_period

MLast(op, outcome, ps, sps, bss, pre, wpIn, wpPre) ==
    [op |-> op, outcome |-> outcome, ps |-> ps, sps |-> sps, bss |-> bss,
     pre |-> pre, wpIn |-> wpIn, wpPre |-> wpPre]

MLastInit ==
    MLast("init", "none", NoParamSpec, <<>>, <<>>, EmptyInterDependencies,
          None, None)

\* the names, storage classes, labels and units offered to a registration
Names == {"x", "y", "z"}
SetpointNames == {"x", "y"}
BasisNames == {"y"}
Variants == {<<"numeric", "", "">>, <<"text", "", "">>,
             <<"numeric", "lbl", "">>, <<"numeric", "", "V">>}

\* Measurement.register_custom_parameter / register_parameter of a Parameter
RegisterCustomParameter(name, variant, setpoints, basis) ==
    LET g == heap[mInterdeps]
        r == RegisterParameter(g, name, variant[2], variant[3],
                               setpoints, basis, variant[1])
        a == AssignInterdeps(heap, mInterdeps, rInterdeps, r.g)
    IN /\ heap' = IF r.assigned THEN a.heap ELSE heap
       /\ mInterdeps' = IF r.assigned THEN a.ref ELSE mInterdeps
       /\ mLast' = MLast("register", r.err,
                         ParamSpecBase(name, variant[1], variant[2], variant[3]),
                         setpoints, basis, g, None, None)
       /\ UNCHANGED <<mWritePeriod, runnerVars, saverVars, now>>

\* Measurement.unregister_parameter
UnregisterParameterCall(param) ==
    LET g == heap[mInterdeps]
        r == UnregisterParameter(g, param)
        a == AssignInterdeps(heap, mInterdeps, rInterdeps, r.g)
    IN /\ heap' = IF r.assigned THEN a.heap ELSE heap
       /\ mInterdeps' = IF r.assigned THEN a.ref ELSE mInterdeps
       /\ mLast' = MLast("unregister", r.err,
                         ParamSpecBase(param, "", "", ""), <<>>, <<>>, g,
                         None, None)
       /\ UNCHANGED <<mWritePeriod, runnerVars, saverVars, now>>

\* Measurement.run: a Runner over the graph the Measurement holds now
Run ==
    /\ rState' = "created"
    /\ rInterdeps' = mInterdeps
    /\ rGraphAtRun' = heap[mInterdeps]
    /\ rWritePeriod' = RunnerWritePeriod(mWritePeriod)
    /\ heap' = [r \in Refs |-> IF r = mInterdeps THEN heap[r]
                               ELSE EmptyInterDependencies]
    /\ mLast' = MLast("run", "none", NoParamSpec, <<>>, <<>>,
                      heap[mInterdeps], None, None)
    /\ UNCHANGED <<mInterdeps, mWritePeriod, saverVars, now>>


----------------------------------------------------------------------------
(* Result values. A value has the Python type of the object (kind), the    *)
(* type of its elements (dtype), its numpy shape and its elements in       *)
(* row-major order; numbers and strings are both held as integers.         *)

Val(kind, dtype, shape, data) ==
    [kind |-> kind, dtype |-> dtype, shape |-> shape, data |-> data]

PyInt(n) == Val("int", "int", <<>>, <<n>>)
PyFloat(n) == Val("float", "float", <<>>, <<n>>)
PyStr(n) == Val("str", "str", <<>>, <<n>>)
NdArray(dtype, shape, data) == Val("ndarray", dtype, shape, data)
PyList(dtype, data) == Val("list", dtype, <<Len(data)>>, data)
\* an element read out of a numpy array: a numpy scalar
NpScalar(dtype, n) == Val("np_" \o dtype, dtype, <<>>, <<n>>)

\* np.shape(v)
Shape(v) == v.shape

\* the elements from the last to the first
RavelBackwards(v) ==
    [dtype |-> v.dtype,
     data |-> [i \in 1..Len(v.data) |-> v.data[Len(v.data) + 1 - i]]]

\* np.array(v).ravel(): dtype and elements
Ravel(v) == [dtype |-> v.dtype, data |-> v.data]

\* np.repeat(v, n): every element of v, n times each
RECURSIVE RepeatEach(_, _)
RepeatEach(data, n) ==
    IF data = <<>> THEN <<>>
    ELSE [i \in 1..n |-> Head(data)] \o RepeatEach(Tail(data), n)

Repeat(v, n) == [dtype |-> v.dtype, data |-> RepeatEach(v.data, n)]

\* a Record: variable name -> value, out of a dict Variable -> value
Record(values) ==
    [n \in {p.name : p \in DOMAIN values} |->
        values[CHOOSE p \in DOMAIN values : p.name = n]]

----------------------------------------------------------------------------
(* DataSaver: unpacking and validation *)

\* an attribute that may be None
PyNone == [some |-> FALSE, v |-> <<>>]
Some(v) == [some |-> TRUE, v |-> v]

\* a merge that keeps only what the first partial result brought
UpdateIfEmpty(d, other) == IF DOMAIN d = {} THEN other ELSE d

\* dict.update(other)
Update(d, other) ==
    [k \in DOMAIN d \cup DOMAIN other |->
        IF k \in DOMAIN other THEN other[k] ELSE d[k]]

\* the outcome of an unpacking step: the dict made, or the error raised
Unpacked(dict) == [err |-> "none", dict |-> dict]
UnpackError(e) == [err |-> e, dict |-> EmptyFcn]

\* the ValueError for a name that is no Variable of the graph
UnknownParameterError(name) ==
    "ValueError: Can not add result for parameter " \o name \o
    ", no such parameter registered with this measurement."

\* the RuntimeError for an array or multi producer whose setpoints are None
WithoutSetpointsError(full_name) ==
    "RuntimeError: " \o full_name \o " is without setpoints. Cannot handle this."

\* the RuntimeError for a setpoint name that is no Variable of the graph
NoSetpointsRegisteredError(full_name) ==
    "RuntimeError: No setpoints registered for " \o full_name \o "!"

\* a result whose parameter is an ArrayParameter: its string form, its
\* setpoints (None, or one coordinate array per axis), its
\* setpoint_full_names (None, or one name per axis) and the value
ArrayResult(name, setpoints, setpoint_full_names, val) ==
    [name |-> name, val |-> val, producer |-> "ArrayParameter",
     setpoints |-> setpoints, setpoint_full_names |-> setpoint_full_names]

\* a result whose parameter is a MultiParameter: names and shapes of its
\* sub-values, setpoints (None, or per sub-value one coordinate array per
\* axis), setpoint_full_names (per sub-value None or the names) and the
\* values, one per sub-value
MultiResult(name, names, shapes, setpoints, setpoint_full_names, data) ==
    [name |-> name, val |-> data, producer |-> "MultiParameter",
     names |-> names, shapes |-> shapes,
     setpoints |-> setpoints, setpoint_full_names |-> setpoint_full_names]

\* isinstance(parameter, ArrayParameter / MultiParameter) in add_result
Producer(partial_result) ==
    IF "producer" \in DOMAIN partial_result THEN partial_result.producer
    ELSE "Parameter"

\* the number of elements of an array of a shape
RECURSIVE Prod(_)
Prod(shape) == IF shape = <<>> THEN 1 ELSE Head(shape) * Prod(Tail(shape))

\* sps[0]
Slice0(sps) ==
    NdArray(sps.dtype, Tail(sps.shape),
            SubSeq(sps.data, 1, Prod(Tail(sps.shape))))

\* while sps.ndim > 1: sps = sps[0]
RECURSIVE ReduceAxis(_)
ReduceAxis(sps) ==
    IF Len(sps.shape) > 1 THEN ReduceAxis(Slice0(sps))
    ELSE NdArray(sps.dtype, sps.shape, sps.data)

\* np.tile(data, n): data as a whole, n times
RECURSIVE Tile(_, _)
Tile(data, n) == IF n = 0 THEN <<>> ELSE data \o Tile(data, n - 1)

\* grids that run along the wrong axes: the first axis varies fastest
MeshgridXY(setpoint_axes) ==
    LET lens == [k \in DOMAIN setpoint_axes |-> Len(setpoint_axes[k].data)]
    IN [k \in DOMAIN setpoint_axes |->
          NdArray(setpoint_axes[k].dtype, lens,
                  Tile(RepeatEach(setpoint_axes[k].data,
                                  Prod(SubSeq(lens, 1, k - 1))),
                       Prod(SubSeq(lens, k + 1, Len(lens)))))]

\* np.meshgrid(*setpoint_axes, indexing='ij'): the k-th axis, of elements
\* each repeated over the axes after it, tiled over the axes before it
Meshgrid(setpoint_axes) ==
    LET lens == [k \in DOMAIN setpoint_axes |-> Len(setpoint_axes[k].data)]
    IN [k \in DOMAIN setpoint_axes |->
          NdArray(setpoint_axes[k].dtype, lens,
                  Tile(RepeatEach(setpoint_axes[k].data,
                                  Prod(SubSeq(lens, k + 1, Len(lens)))),
                       Prod(SubSeq(lens, 1, k - 1))))]

\* the name of the i-th setpoint (counted from 0) in
\* _unpack_setpoints_from_parameter
SetpointName(sp_names, fallback_sp_name, i) ==
    IF sp_names.some THEN sp_names.v[i + 1]
    ELSE fallback_sp_name \o "_" \o ToString(i)

\* DataSaver._unpack_setpoints_from_parameter
UnpackSetpointsFromParameter(g, full_name, setpoints, sp_names, fallback_sp_name) ==
    LET spname(i) == SetpointName(sp_names, fallback_sp_name, i - 1)
        setpoint_axes == [i \in DOMAIN setpoints |-> ReduceAxis(setpoints[i])]
        output_grids == Meshgrid(setpoint_axes)
        setpoint_parameters ==
            [i \in DOMAIN setpoints |-> IdToParamspec(g)[spname(i)]]
    IN IF \E i \in DOMAIN setpoints : spname(i) \notin DOMAIN IdToParamspec(g)
       THEN UnpackError(NoSetpointsRegisteredError(full_name))
       ELSE Unpacked([param \in Range(setpoint_parameters) |->
                output_grids[CHOOSE i \in DOMAIN setpoints :
                    /\ setpoint_parameters[i] = param
                    /\ \A j \in DOMAIN setpoints :
                          setpoint_parameters[j] = param => j <= i]])

\* an unpacking that leaves out the results of unknown parameters
UnpackPartialResultSkipsUnknown(g, partial_result) ==
    IF partial_result.name \notin DOMAIN IdToParamspec(g)
    THEN Unpacked(EmptyFcn)
    ELSE Unpacked(Bind(EmptyFcn, IdToParamspec(g)[partial_result.name],
                       partial_result.val))

\* DataSaver._unpack_partial_result
UnpackPartialResult(g, partial_result) ==
    IF partial_result.name \notin DOMAIN IdToParamspec(g)
    THEN UnpackError(UnknownParameterError(partial_result.name))
    ELSE Unpacked(Bind(EmptyFcn, IdToParamspec(g)[partial_result.name],
                       partial_result.val))

\* DataSaver._unpack_arrayparameter
UnpackArrayparameter(g, partial_result) ==
    LET array_param == partial_result
        sps == UnpackSetpointsFromParameter(
                   g, array_param.name, array_param.setpoints.v,
                   array_param.setpoint_full_names,
                   array_param.name \o "_setpoint")
    IN IF ~array_param.setpoints.some
       THEN UnpackError(WithoutSetpointsError(array_param.name))
       ELSE IF array_param.name \notin DOMAIN IdToParamspec(g)
            THEN UnpackError(UnknownParameterError(array_param.name))
            ELSE IF sps.err # "none" THEN sps
                 ELSE Unpacked(Update(
                         Bind(EmptyFcn, IdToParamspec(g)[array_param.name],
                              partial_result.val),
                         sps.dict))

\* the test of _unpack_multiparameter for a bundle it cannot handle
SetpointsMissing(parameter) == ~parameter.setpoints.some

\* the loop of _unpack_multiparameter from sub-value i on
RECURSIVE UnpackSubvalues(_, _, _, _)
UnpackSubvalues(g, parameter, i, result_dict) ==
    IF i > Len(parameter.shapes) THEN Unpacked(result_dict)
    ELSE IF parameter.names[i] \notin DOMAIN IdToParamspec(g)
         THEN UnpackError(UnknownParameterError(parameter.names[i]))
         ELSE LET paramspec == IdToParamspec(g)[parameter.names[i]]
                  own == Bind(result_dict, paramspec, parameter.val[i])
                  sps == UnpackSetpointsFromParameter(
                             g, parameter.name, parameter.setpoints.v[i],
                             parameter.setpoint_full_names[i],
                             parameter.names[i] \o "_setpoint")
              IN IF parameter.shapes[i] = <<>>
                 THEN UnpackSubvalues(g, parameter, i + 1, own)
                 ELSE IF sps.err # "none" THEN sps
                      ELSE UnpackSubvalues(g, parameter, i + 1,
                                           Update(own, sps.dict))

\* DataSaver._unpack_multiparameter
UnpackMultiparameter(g, partial_result) ==
    IF SetpointsMissing(partial_result)
    THEN UnpackError(WithoutSetpointsError(partial_result.name))
    ELSE UnpackSubvalues(g, partial_result, 1, EmptyFcn)

\* the loop of add_result over the partial results of one call, merged by
\* dict.update in argument order
RECURSIVE UnpackAll(_, _, _)
UnpackAll(g, res_tuple, results_dict) ==
    IF res_tuple = <<>> THEN [err |-> "none", dict |-> results_dict]
    ELSE LET partial_result == Head(res_tuple)
             unpacked ==
                 CASE Producer(partial_result) = "ArrayParameter" ->
                        UnpackArrayparameter(g, partial_result)
                   [] Producer(partial_result) = "MultiParameter" ->
                        UnpackMultiparameter(g, partial_result)
                   [] OTHER -> UnpackPartialResult(g, partial_result)
         IN IF unpacked.err # "none"
            THEN [err |-> unpacked.err, dict |-> results_dict]
            ELSE UnpackAll(g, Tail(res_tuple),
                           Update(results_dict, unpacked.dict))

\* InterDependencies_.validate_subset: every setpoint of a dependent in the
\* set and every basis of a derived Variable in the set is in the set
ValidateSubset(g, params) ==
    IF \E p \in params \cap DOMAIN g.dependencies :
          ~(Range(g.dependencies[p]) \subseteq params)
    THEN "DependencyError"
    ELSE IF \E p \in params \cap DOMAIN g.inferences :
               ~(Range(g.inferences[p]) \subseteq params)
         THEN "InferenceError"
         ELSE "none"

\* a handler that lets the InferenceError through
ValidateResultDepsDependencyOnly(g, results_dict) ==
    LET e == ValidateSubset(g, DOMAIN results_dict)
    IN IF e = "DependencyError"
       THEN "ValueError: some required parameters are missing"
       ELSE e

\* DataSaver._validate_result_deps
ValidateResultDeps(g, results_dict) ==
    LET e == ValidateSubset(g, DOMAIN results_dict)
    IN IF e \in {"DependencyError", "InferenceError"}
       THEN "ValueError: some required parameters are missing"
       ELSE e

\* the message of the ValueError of _validate_result_shapes
ShapeMismatchError(toplevel_param, required_shape, setpoint, setpoint_shape) ==
    "ValueError: Incompatible shapes. Parameter " \o toplevel_param.name \o
    " has shape " \o ToString(required_shape) \o ", but its setpoint " \o
    setpoint.name \o " has shape " \o ToString(setpoint_shape) \o "."

\* the inner loop of _validate_result_shapes over the setpoints of one
\* dependent, in the order of the tuple
RECURSIVE ValidateSetpointShapes(_, _, _)
ValidateSetpointShapes(results_dict, toplevel_param, setpoints) ==
    IF setpoints = <<>> THEN "none"
    ELSE LET setpoint == Head(setpoints)
             required_shape == Shape(results_dict[toplevel_param])
             setpoint_shape == Shape(results_dict[setpoint])
         IN IF setpoint_shape \notin {<<>>, required_shape}
            THEN ShapeMismatchError(toplevel_param, required_shape,
                                    setpoint, setpoint_shape)
            ELSE ValidateSetpointShapes(results_dict, toplevel_param,
                                        Tail(setpoints))

\* a check that takes no scalar setpoint for an array
ValidateShapesOfEqualOnly(g, results_dict, toplevel_param) ==
    LET required_shape == Shape(results_dict[toplevel_param])
        bad == {setpoint \in Range(g.dependencies[toplevel_param]) :
                   Shape(results_dict[setpoint]) # required_shape}
    IN IF bad = {} THEN "none"
       ELSE LET setpoint == CHOOSE setpoint \in bad : TRUE
            IN ShapeMismatchError(toplevel_param, required_shape, setpoint,
                                  Shape(results_dict[setpoint]))

\* the body of the outer loop of _validate_result_shapes for one dependent
ValidateShapesOf(g, results_dict, toplevel_param) ==
    ValidateSetpointShapes(results_dict, toplevel_param,
                           g.dependencies[toplevel_param])

\* DataSaver._validate_result_shapes; order is the order the set
\* toplevel_params is iterated in
RECURSIVE ValidateResultShapes(_, _, _)
ValidateResultShapes(g, results_dict, order) ==
    IF order = <<>> THEN "none"
    ELSE LET e == ValidateShapesOf(g, results_dict, Head(order))
         IN IF e # "none" THEN e
            ELSE ValidateResultShapes(g, results_dict, Tail(order))

\* allowed_types of _validate_result_types, as the kinds of value
AllowedKinds(expec_type) ==
    CASE expec_type = "numeric" ->
            {"int", "float", "np_int", "np_float", "ndarray"}
      [] expec_type = "text" -> {"str"}
      [] expec_type = "array" -> {"ndarray", "tuple", "list"}

\* ... and as the element types of an array or a sequence
AllowedDtypes(expec_dtype) ==
    CASE expec_dtype = "numeric" -> {"int", "float"}
      [] expec_dtype = "text" -> {"str"}
      [] expec_dtype = "array" -> {}

\* basic_type_validator
BasicTypeOK(vals, expec_type) == vals.kind \in AllowedKinds(expec_type)

\* array_type_validator
ArrayTypeOK(vals, expec_dtype) == vals.dtype \in AllowedDtypes(expec_dtype)

\* the branch of _validate_result_types for one Variable
TypeOK(ps, vals) ==
    CASE ps.type = "numeric" ->
            IF Shape(vals) = <<>> THEN BasicTypeOK(vals, "numeric")
            ELSE ArrayTypeOK(vals, "numeric")
      [] ps.type = "text" ->
            IF vals.kind \in {"list", "tuple"} THEN ArrayTypeOK(vals, "text")
            ELSE BasicTypeOK(vals, "text")
      [] ps.type = "array" ->
            BasicTypeOK(vals, "array") /\ ArrayTypeOK(vals, "numeric")
      [] OTHER -> TRUE

\* DataSaver._validate_result_types
ValidateResultTypes(results_dict) ==
    IF \E ps \in DOMAIN results_dict : ~TypeOK(ps, results_dict[ps])
    THEN "ValueError: wrong type"
    ELSE "none"

----------------------------------------------------------------------------
(* DataSaver: flattening into Records *)

\* the outcome of a flattening step: the Records made, or the error raised
Records(recs) == [err |-> "none", recs |-> recs]
RecordsError(e) == [err |-> e, recs |-> <<>>]

\* reshaper of _finalize_res_dict_array
Reshaper(val) ==
    IF Shape(val) = <<>> /\ val.kind = "ndarray"
    THEN NdArray(val.dtype, <<1>>, val.data)
    ELSE IF val.kind \in {"tuple", "list"}
         THEN NdArray(val.dtype, val.shape, val.data)
         ELSE val

\* DataSaver._finalize_res_dict_array
FinalizeResDictArray(result_dict, all_params) ==
    Records(<<Record([ps \in all_params |-> Reshaper(result_dict[ps])])>>)

\* a conversion that leaves an array of no dimension as it is
ArrayToScalarKeepsArray(val) == val

\* array_to_scalar of _finalize_res_dict_numeric: float(val) of an array
ArrayToScalar(val) ==
    IF val.kind = "ndarray" THEN PyFloat(val.data[1]) ELSE val

\* float(val) raises for an array of more (or less) than one element and
\* for an element that is no number
ArrayToScalarError(val) ==
    IF val.kind # "ndarray" THEN "none"
    ELSE IF Len(val.data) # 1
         THEN "TypeError: only size-1 arrays can be converted"
         ELSE IF val.dtype = "str"
              THEN "ValueError: could not convert string to float"
              ELSE "none"

\* the flat_results of _finalize_res_dict_numeric for one Variable; dep is
\* the setpoint the loop over deps_params ended on
FlatResult(result_dict, ps, toplevel_param, inff_params, deps_params, dep, N) ==
    IF ps \in inff_params
    THEN IF Shape(result_dict[ps]) = <<>>
         THEN Repeat(result_dict[dep], N)
         ELSE Ravel(result_dict[ps])
    ELSE IF ps \in deps_params
         THEN IF Shape(result_dict[ps]) = <<>>
              THEN Repeat(result_dict[ps], N)
              ELSE Ravel(result_dict[ps])
         ELSE Ravel(result_dict[toplevel_param])

\* DataSaver._finalize_res_dict_numeric
FinalizeResDictNumeric(result_dict, toplevel_param, inff_params, deps_params, dep) ==
    LET all_params == inff_params \cup deps_params \cup {toplevel_param}
        N == Len(Ravel(result_dict[toplevel_param]).data)
        flat(ps) == FlatResult(result_dict, ps, toplevel_param, inff_params,
                               deps_params, dep, N)
    IN IF Shape(result_dict[toplevel_param]) = <<>>
       THEN IF \E ps \in all_params :
                  ArrayToScalarError(result_dict[ps]) # "none"
            THEN RecordsError(ArrayToScalarError(result_dict[
                     CHOOSE ps \in all_params :
                        ArrayToScalarError(result_dict[ps]) # "none"]))
            ELSE Records(<<Record([ps \in all_params |->
                                      ArrayToScalar(result_dict[ps])])>>)
       ELSE IF \E ps \in all_params : Len(flat(ps).data) < N
            THEN RecordsError("IndexError: index out of bounds")
            ELSE Records([ind \in 1..N |->
                     Record([ps \in all_params |->
                               NpScalar(flat(ps).dtype, flat(ps).data[ind])])])

\* a standalone always stored as one Record
FinalizeStandaloneWhole(param, value) ==
    <<Record([ps \in {param} |-> value])>>

\* DataSaver._finalize_res_dict_standalones for one standalone
FinalizeStandalone(param, value) ==
    IF param.type = "text" /\ value.kind \in {"tuple", "list"}
    THEN [i \in 1..Len(value.data) |->
             Record([ps \in {param} |-> PyStr(value.data[i])])]
    ELSE <<Record([ps \in {param} |-> value])>>

\* DataSaver._finalize_res_dict_standalones, in the order of the dict
RECURSIVE FinalizeResDictStandalones(_, _)
FinalizeResDictStandalones(result_dict, order) ==
    IF order = <<>> THEN <<>>
    ELSE FinalizeStandalone(Head(order), result_dict[Head(order)]) \o
         FinalizeResDictStandalones(result_dict, Tail(order))

\* the Records of one dependent group of _enqueue_results
FinalizeGroup(g, result_dict, toplevel_param, dep) ==
    LET inff_params == IF toplevel_param \in DOMAIN g.inferences
                       THEN Range(g.inferences[toplevel_param]) ELSE {}
        deps_params == Range(g.dependencies[toplevel_param])
        all_params == inff_params \cup deps_params \cup {toplevel_param}
    IN CASE toplevel_param.type = "array" ->
                FinalizeResDictArray(result_dict, all_params)
         [] toplevel_param.type = "numeric" ->
                FinalizeResDictNumeric(result_dict, toplevel_param,
                                       inff_params, deps_params, dep)
         [] OTHER ->
                Records(<<Record([ps \in all_params |-> result_dict[ps]])>>)

\* the loop of _enqueue_results over the dependent groups, in the order the
\* set toplevel_params is iterated: the Records appended to self._results,
\* and the error that ended the loop, if any
RECURSIVE EnqueueGroups(_, _, _, _)
EnqueueGroups(g, result_dict, order, lastDep) ==
    IF order = <<>> THEN Records(<<>>)
    ELSE LET first == FinalizeGroup(g, result_dict, Head(order),
                                   lastDep[Head(order)])
             rest == EnqueueGroups(g, result_dict, Tail(order), lastDep)
         IN IF first.err # "none" THEN first
            ELSE [err |-> rest.err, recs |-> first.recs \o rest.recs]

\* the Records of the standalones put before those of the groups
EnqueueResultsStandalonesFirst(g, result_dict, groupOrder, lastDep, standaloneOrder) ==
    LET groups == EnqueueGroups(g, result_dict, groupOrder, lastDep)
    IN IF groups.err # "none" THEN groups
       ELSE Records(FinalizeResDictStandalones(result_dict, standaloneOrder)
                    \o groups.recs)

\* DataSaver._enqueue_results
EnqueueResults(g, result_dict, groupOrder, lastDep, standaloneOrder) ==
    LET groups == EnqueueGroups(g, result_dict, groupOrder, lastDep)
    IN IF groups.err # "none" THEN groups
       ELSE Records(groups.recs \o
                    FinalizeResDictStandalones(result_dict, standaloneOrder))

\* the orders a Python set can be iterated in
Orders(S) == {s \in DistinctSeqs(S, Cardinality(S)) : Len(s) = Cardinality(S)}

\* for every dependent group, the setpoint its loop over deps_params ends on
LastDeps(g, toplevel_params) ==
    {f \in [toplevel_params -> TreeLeafs(g.dependencies)] :
        \A t \in toplevel_params : f[t] \in Range(g.dependencies[t])}

----------------------------------------------------------------------------
(* DataSaver: the buffer and its flushes *)

\* a flush that empties the buffer whatever the sink did
FlushDataToDatabaseClears(results, sinkOk) ==
    IF results = <<>>
    THEN [status |-> "empty", err |-> "none", results |-> results,
          handed |-> <<>>, written |-> <<>>]
    ELSE IF sinkOk
         THEN [status |-> "ok", err |-> "none", results |-> <<>>,
               handed |-> results, written |-> results]
         ELSE [status |-> "fail", err |-> "none", results |-> <<>>,
               handed |-> results, written |-> <<>>]

\* DataSaver.flush_data_to_database: what became of the buffer, the Records
\* handed to the sink's add_results, the Records the sink took, and the
\* exception leaving the method. sinkOk says whether
\* the sink's add_results returns; a sink that raises has written nothing.
FlushDataToDatabase(results, sinkOk) ==
    IF results = <<>>
    THEN [status |-> "empty", err |-> "none", results |-> results,
          handed |-> <<>>, written |-> <<>>]
    ELSE IF sinkOk
         THEN [status |-> "ok", err |-> "none", results |-> <<>>,
               handed |-> results, written |-> results]
         ELSE [status |-> "fail", err |-> "none", results |-> results,
               handed |-> results, written |-> <<>>]

\* the buffer the last failed flush left, after one more flush
FailedBufferAfter(failed, f) ==
    CASE f.status = "fail" -> f.handed
      [] f.status = "ok" -> <<>>
      [] OTHER -> failed

\* no flush at all
NoFlush(results) ==
    [status |-> "none", err |-> "none", results |-> results, handed |-> <<>>,
     written |-> <<>>]

\* microseconds in a clock tick
TickMicros == 1000

\* monotonic() - self._last_save_time
Elapsed(t, since) == Float((t - since) * TickMicros)

\* a test that is also met when the write period has just been reached
FlushDueAtPeriod(t, last_save_time, write_period) ==
    FloatGE(Elapsed(t, last_save_time), write_period)

\* the test of add_result for a flush
FlushDue(t, last_save_time, write_period) ==
    FloatGT(Elapsed(t, last_save_time), write_period)

\* self._last_save_time after add_result; t is monotonic() after the flush
LastSaveTimeAfter(last_save_time, flushed, t) ==
    IF flushed THEN t ELSE last_save_time

\* an exit that flushes only when the measurement body did not raise
RunnerExitFlushUnlessRaised(results, sinkOk, exception_type) ==
    IF exception_type = "None" THEN FlushDataToDatabase(results, sinkOk)
    ELSE NoFlush(results)

\* the flush of Runner.__exit__
RunnerExitFlush(results, sinkOk, exception_type) ==
    FlushDataToDatabase(results, sinkOk)

\* Measurement.add_subscriber: the subscribers the Runner is made with
SessionSubscribers == <<"callble">>

\* the calls Runner.__enter__ makes on the DataSet it has created, up to the
\* DataSaver it returns; a graph that equals InterDependencies_() raises
\* before the first of them
RunnerEnterEvents(interdeps, subscribers) ==
    IF interdeps = EmptyInterDependencies THEN <<>>
    ELSE <<"set_interdependencies", "mark_started">> \o
         [i \in DOMAIN subscribers |-> "subscribe"]

\* the call flush_data_to_database makes on the DataSet
FlushEvents(f) ==
    IF f.status \in {"ok", "fail"} THEN <<"add_results">> ELSE <<>>

\* an exit that closes the DataSet before it flushes
RunnerExitEventsCloseFirst(f, actionsOk) ==
    <<"exitactions">> \o
    (IF actionsOk THEN <<"mark_completed">> \o FlushEvents(f) \o
                       <<"unsubscribe_all">>
     ELSE <<>>)

\* the calls of Runner.__exit__: the flush, the exit actions (not on the
\* DataSet; an action that raises ends the method), mark_completed,
\* unsubscribe_all
RunnerExitEvents(f, actionsOk) ==
    FlushEvents(f) \o <<"exitactions">> \o
    (IF actionsOk THEN <<"mark_completed", "unsubscribe_all">> ELSE <<>>)

\* the state of the DataSet after a list of calls
SinkStateAfter(state, events) ==
    IF "mark_completed" \in Range(events) THEN "completed"
    ELSE IF "mark_started" \in Range(events) THEN "started"
         ELSE state

SLast(op, outcome, call, pre, enq, flush, handed, exc, elapsedTrig, elapsedAny) ==
    [op |-> op, outcome |-> outcome, call |-> call, pre |-> pre, enq |-> enq,
     flush |-> flush, handed |-> handed, exc |-> exc,
     elapsedTrig |-> elapsedTrig, elapsedAny |-> elapsedAny]

SLastInit == SLast("init", "none", <<>>, <<>>, <<>>, "none", <<>>, "None", 0, 0)

SaverInit ==
    /\ dsWritePeriod = None
    /\ dsResults = <<>>
    /\ dsLastSaveTime = 0
    /\ dsSink = <<>>
    /\ dsSinkState = "none"
    /\ dsEvents = <<>>
    /\ now = 0
    /\ sLast = SLastInit
    /\ sCalls = 0
    /\ gProduced = <<>>
    /\ gLastFlush = 0
    /\ gLastTriggered = 0
    /\ gFlushFailed = FALSE
    /\ gFailedBuffer = <<>>

\* Measurement.write_period = wp
SetWritePeriod(wp) ==
    LET r == WritePeriodSetter(mWritePeriod, wp)
    IN /\ rState = "none"
       /\ mWritePeriod' = r.wp
       /\ mLast' = MLast("set_write_period", r.err, NoParamSpec, <<>>, <<>>,
                         heap[mInterdeps], wp, mWritePeriod)
       /\ UNCHANGED <<heap, mInterdeps, mOps, runnerVars, saverVars, now>>

\* Runner.__enter__: the DataSet is started and the DataSaver made
Enter ==
    /\ rState = "created"
    /\ IF heap[rInterdeps] = EmptyInterDependencies
       THEN /\ rState' = "failed"
            /\ sLast' = SLast("enter", "RuntimeError: No parameters supplied",
                              <<>>, <<>>, <<>>, "none", <<>>, "None", 0, 0)
            /\ dsEvents' = RunnerEnterEvents(heap[rInterdeps],
                                             SessionSubscribers)
            /\ dsSinkState' = SinkStateAfter(dsSinkState, dsEvents')
            /\ UNCHANGED <<dsWritePeriod, dsResults, dsLastSaveTime, dsSink,
                           gProduced, gLastFlush, gLastTriggered,
                           gFlushFailed, gFailedBuffer>>
       ELSE /\ rState' = "entered"
            /\ dsEvents' = RunnerEnterEvents(heap[rInterdeps],
                                             SessionSubscribers)
            /\ dsSinkState' = SinkStateAfter(dsSinkState, dsEvents')
            /\ dsWritePeriod' = rWritePeriod
            /\ dsResults' = <<>>
            /\ dsLastSaveTime' = now
            /\ gLastFlush' = now
            /\ gLastTriggered' = now
            /\ sLast' = SLast("enter", "none", <<>>, <<>>, <<>>, "none", <<>>,
                              "None", 0, 0)
            /\ UNCHANGED <<dsSink, gProduced, gFlushFailed, gFailedBuffer>>
    /\ UNCHANGED <<measVars, rInterdeps, rGraphAtRun, rWritePeriod, sCalls,
                   now>>

\* add_result from its validation on, the partial results unpacked; g is
\* the DataSaver's graph. shapeOrder, groupOrder, lastDep and
\* standaloneOrder are the orders Python iterates the sets of this call
\* in; sinkOk is the sink's answer to a flush, d the clock ticks the flush
\* takes.
AddResultUnpacked(res_tuple, g, unpacked, sinkOk, d) ==
    LET results_dict == unpacked.dict
        toplevel_params == DOMAIN g.dependencies \cap DOMAIN results_dict
        standalones == g.standalones \cap DOMAIN results_dict
        valid(shapeOrder) ==
            IF unpacked.err # "none" THEN unpacked.err
            ELSE IF ValidateResultDeps(g, results_dict) # "none"
                 THEN ValidateResultDeps(g, results_dict)
                 ELSE IF ValidateResultShapes(g, results_dict, shapeOrder)
                            # "none"
                      THEN ValidateResultShapes(g, results_dict, shapeOrder)
                      ELSE ValidateResultTypes(results_dict)
    IN /\ rState = "entered"
       /\ sCalls < MaxCalls
       /\ sCalls' = sCalls + 1
       /\ \E shapeOrder \in Orders(toplevel_params) :
          IF valid(shapeOrder) # "none"
          THEN /\ sLast' = SLast("add_result", valid(shapeOrder), res_tuple,
                                 dsResults, <<>>, "none", <<>>, "None", 0, 0)
               /\ sinkOk /\ d = 0
               /\ dsEvents' = <<>>
               /\ UNCHANGED <<dsResults, dsLastSaveTime, dsSink, gProduced,
                              gLastFlush, gLastTriggered, gFlushFailed,
                              gFailedBuffer, now>>
          ELSE \E groupOrder \in Orders(toplevel_params),
                  lastDep \in LastDeps(g, toplevel_params),
                  standaloneOrder \in Orders(standalones) :
               LET enq == EnqueueResults(g, results_dict, groupOrder, lastDep,
                                         standaloneOrder)
                   results == dsResults \o enq.recs
                   due == enq.err = "none" /\
                          FlushDue(now, dsLastSaveTime, dsWritePeriod)
                   f == IF due THEN FlushDataToDatabase(results, sinkOk)
                        ELSE NoFlush(results)
                   flushed == due /\ f.err = "none"
               IN /\ (f.status \in {"ok", "fail"} \/ sinkOk)
                  /\ IF due THEN now + d <= MaxTime ELSE d = 0
                  /\ now' = now + d
                  /\ dsResults' = f.results
                  /\ dsSink' = dsSink \o f.written
                  /\ dsEvents' = FlushEvents(f)
                  /\ dsLastSaveTime' =
                         LastSaveTimeAfter(dsLastSaveTime, flushed, now')
                  /\ gLastTriggered' = IF flushed THEN now' ELSE gLastTriggered
                  /\ gLastFlush' = IF due THEN now' ELSE gLastFlush
                  /\ gFlushFailed' = (gFlushFailed \/ f.status = "fail")
                  /\ gFailedBuffer' = FailedBufferAfter(gFailedBuffer, f)
                  /\ gProduced' = IF enq.err = "none"
                                  THEN gProduced \o enq.recs ELSE gProduced
                  /\ sLast' = SLast("add_result",
                                    IF enq.err # "none" THEN enq.err ELSE f.err,
                                    res_tuple, dsResults, enq.recs, f.status,
                                    f.handed, "None",
                                    now - gLastTriggered, now - gLastFlush)
       /\ UNCHANGED <<measVars, runnerVars, dsWritePeriod, dsSinkState>>

\* DataSaver.add_result(*res_tuple)
AddResult(res_tuple, sinkOk, d) ==
    AddResultUnpacked(res_tuple, heap[rInterdeps],
                      UnpackAll(heap[rInterdeps], res_tuple, EmptyFcn),
                      sinkOk, d)

\* DataSaver.flush_data_to_database, called by the user
FlushData(sinkOk) ==
    LET f == FlushDataToDatabase(dsResults, sinkOk)
    IN /\ rState = "entered"
       /\ (f.status \in {"ok", "fail"} \/ sinkOk)
       /\ dsResults' = f.results
       /\ dsSink' = dsSink \o f.written
       /\ dsEvents' = FlushEvents(f)
       /\ gLastFlush' = now
       /\ gFlushFailed' = (gFlushFailed \/ f.status = "fail")
       /\ gFailedBuffer' = FailedBufferAfter(gFailedBuffer, f)
       /\ sLast' = SLast("flush", f.err, <<>>, dsResults, <<>>, f.status,
                         f.handed, "None", 0, 0)
       /\ UNCHANGED <<measVars, runnerVars, dsWritePeriod, dsLastSaveTime,
                      dsSinkState, sCalls, gProduced, gLastTriggered, now>>

\* Runner.__exit__(exception_type, ...); actionsOk says whether the exit
\* actions return. The outcome kept in sLast is that of the flush; an exit
\* action that raises shows in dsEvents.
Exit(exception_type, sinkOk, actionsOk) ==
    LET f == RunnerExitFlush(dsResults, sinkOk, exception_type)
    IN /\ rState = "entered"
       /\ (f.status \in {"ok", "fail"} \/ sinkOk)
       /\ rState' = "exited"
       /\ dsResults' = f.results
       /\ dsSink' = dsSink \o f.written
       /\ dsEvents' = IF f.err = "none" THEN RunnerExitEvents(f, actionsOk)
                       ELSE FlushEvents(f)
       /\ dsSinkState' = SinkStateAfter(dsSinkState, dsEvents')
       /\ gLastFlush' = IF f.status = "none" THEN gLastFlush ELSE now
       /\ gFlushFailed' = (gFlushFailed \/ f.status = "fail")
       /\ gFailedBuffer' = FailedBufferAfter(gFailedBuffer, f)
       /\ sLast' = SLast("exit", f.err, <<>>, dsResults, <<>>, f.status,
                         f.handed, exception_type, 0, 0)
       /\ UNCHANGED <<measVars, rInterdeps, rGraphAtRun, rWritePeriod,
                      dsWritePeriod, dsLastSaveTime, sCalls, gProduced,
                      gLastTriggered, now>>

\* time passes
Tick ==
    /\ rState = "entered"
    /\ now < MaxTime
    /\ now' = now + 1
    /\ UNCHANGED <<measVars, runnerVars, saverVars>>

----------------------------------------------------------------------------
(* Specifications *)

\* the Measurement after __init__, no Runner yet
InitMeas ==
    /\ heap = [r \in Refs |-> EmptyInterDependencies]
    /\ mInterdeps = 1
    /\ mWritePeriod = None
    /\ mLast = MLastInit
    /\ mOps = 0
    /\ rState = "none"
    /\ rInterdeps = 0
    /\ rGraphAtRun = EmptyInterDependencies
    /\ rWritePeriod = None
    /\ SaverInit

\* one more Measurement call
Counted == mOps < MaxOps /\ mOps' = mOps + 1

RegisterAny ==
    \E name \in Names, variant \in Variants,
       setpoints \in DistinctSeqs(SetpointNames, MaxEdges),
       basis \in DistinctSeqs(BasisNames, MaxEdges) :
         Counted /\ RegisterCustomParameter(name, variant, setpoints, basis)

UnregisterAny ==
    \E param \in Names : Counted /\ UnregisterParameterCall(param)

RunAny == Counted /\ Run

NextMeas == RegisterAny \/ UnregisterAny \/ RunAny

\* the Measurement under every sequence of registrations, unregistrations
\* and run() calls
SpecMeas == InitMeas /\ [][NextMeas]_vars

\* the registrations of the session: two setpoint / basis Variables, a text
\* standalone, a dependent of x, and a dependent of x inferred from b
SessionRegistrations ==
    << [name |-> "x", variant |-> <<"numeric", "", "">>,
        setpoints |-> <<>>, basis |-> <<>>],
       [name |-> "b", variant |-> <<"numeric", "", "">>,
        setpoints |-> <<>>, basis |-> <<>>],
       [name |-> "t", variant |-> <<"text", "", "">>,
        setpoints |-> <<>>, basis |-> <<>>],
       [name |-> "d1", variant |-> <<"numeric", "", "">>,
        setpoints |-> <<"x">>, basis |-> <<>>],
       [name |-> "d2", variant |-> <<"numeric", "", "">>,
        setpoints |-> <<"x">>, basis |-> <<"b">>] >>

RegisterSession ==
    /\ rState = "none"
    /\ mOps < Len(SessionRegistrations)
    /\ mOps' = mOps + 1
    /\ LET reg == SessionRegistrations[mOps + 1]
       IN RegisterCustomParameter(reg.name, reg.variant, reg.setpoints,
                                  reg.basis)

\* the write periods offered to the setter: 0.5 ms, 1 ms, 2 ms, NaN, a string
WritePeriodInputs ==
    {Float(500), Float(MinWritePeriod), Float(2 * MinWritePeriod), NaN,
     NotANumber}

SetWritePeriodAny == \E wp \in WritePeriodInputs : SetWritePeriod(wp)

RunSession == rState = "none" /\ mOps' = mOps /\ Run

PartialResult(name, val) == [name |-> name, val |-> val]

\* the add_result calls of the session: a point of d1; a point of d1 and d2
\* whose basis b is an array; d1 without its setpoint; a text
SessionCalls ==
    { <<PartialResult("x", PyInt(1)), PartialResult("d1", PyInt(2))>>,
      <<PartialResult("x", PyInt(1)), PartialResult("d1", PyInt(2)),
        PartialResult("d2", PyInt(3)),
        PartialResult("b", NdArray("int", <<3>>, <<4, 5, 6>>))>>,
      <<PartialResult("d1", PyInt(2))>>,
      <<PartialResult("t", PyStr(7))>> }

AddResultSession ==
    \E res_tuple \in SessionCalls, sinkOk \in BOOLEAN, d \in {0, 1} :
        AddResult(res_tuple, sinkOk, d)

FlushDataAny == \E sinkOk \in BOOLEAN : FlushData(sinkOk)

ExitAny ==
    \E exception_type \in {"None", "Exception"}, sinkOk \in BOOLEAN,
       actionsOk \in BOOLEAN :
        Exit(exception_type, sinkOk, actionsOk)

Next ==
    \/ RegisterSession
    \/ SetWritePeriodAny
    \/ RunSession
    \/ Enter
    \/ AddResultSession
    \/ FlushDataAny
    \/ Tick
    \/ ExitAny

\* a session: registration, write period, run(), the with-block, exit
Spec == InitMeas /\ [][Next]_vars

\* the graph of the session, registered in full
RECURSIVE RegisterAll(_, _)
RegisterAll(g, regs) ==
    IF regs = <<>> THEN g
    ELSE LET reg == Head(regs)
         IN RegisterAll(RegisterParameter(g, reg.name, reg.variant[2],
                                          reg.variant[3], reg.setpoints,
                                          reg.basis, reg.variant[1]).g,
                        Tail(regs))

SessionGraph == RegisterAll(EmptyInterDependencies, SessionRegistrations)

\* a session inside the with-block: the registrations of graph g made, no
\* write period configured, nothing submitted yet
EnteredOver(g, registrations) ==
    /\ heap = [r \in Refs |-> IF r = 1 THEN g ELSE EmptyInterDependencies]
    /\ mInterdeps = 1
    /\ mWritePeriod = None
    /\ mLast = MLast("run", "none", NoParamSpec, <<>>, <<>>, g, None, None)
    /\ mOps = registrations
    /\ rState = "entered"
    /\ rInterdeps = 1
    /\ rGraphAtRun = g
    /\ rWritePeriod = Float(DefaultWritePeriod)
    /\ dsWritePeriod = Float(DefaultWritePeriod)
    /\ dsResults = <<>>
    /\ dsLastSaveTime = 0
    /\ dsSink = <<>>
    /\ dsSinkState = "started"
    /\ dsEvents = RunnerEnterEvents(g, SessionSubscribers)
    /\ now = 0
    /\ sLast = SLast("enter", "none", <<>>, <<>>, <<>>, "none", <<>>, "None",
                     0, 0)
    /\ sCalls = 0
    /\ gProduced = <<>>
    /\ gLastFlush = 0
    /\ gLastTriggered = 0
    /\ gFlushFailed = FALSE
    /\ gFailedBuffer = <<>>

\* the session inside the with-block, all registrations made
InitAdd == EnteredOver(SessionGraph, Len(SessionRegistrations))

\* the values add_result is given for a Variable: scalars and arrays, and
\* for the text Variable also a number
Payloads(name) ==
    CASE name = "x" -> {PyInt(1), NdArray("int", <<2>>, <<1, 2>>)}
      [] name = "d1" -> {PyInt(2), NdArray("int", <<2>>, <<3, 4>>)}
      [] name = "d2" -> {PyInt(3), NdArray("int", <<4>>, <<5, 6, 7, 8>>)}
      [] name = "b" -> {PyInt(4), NdArray("int", <<3>>, <<4, 5, 6>>)}
      [] name = "t" -> {PyStr(7), PyInt(5)}
      [] OTHER -> {PyInt(9)}

\* every call that gives a value, or none, to each of the names in turn
RECURSIVE CallsOver(_)
CallsOver(names) ==
    IF names = <<>> THEN {<<>>}
    ELSE {first \o rest :
            first \in {<<>>} \cup {<<PartialResult(Head(names), v)>> :
                                     v \in Payloads(Head(names))},
            rest \in CallsOver(Tail(names))}

\* the add_result calls: over the dependents and their setpoints and basis,
\* with the text standalone, with a string for a numeric Variable, and with
\* a name that was never registered
AddCalls ==
    CallsOver(<<"x", "d1", "d2", "b">>)
    \cup CallsOver(<<"t">>)
    \cup {<<PartialResult("x", PyInt(1)), PartialResult("d1", PyInt(2)),
            PartialResult("t", PyStr(7))>>}
    \cup {<<PartialResult("x", PyInt(1)), PartialResult("d1", PyStr(7))>>}
    \cup {call \o <<PartialResult("q", PyInt(9))>> :
            call \in {<<>>, <<PartialResult("x", PyInt(1)),
                              PartialResult("d1", PyInt(2))>>}}

AddResultAny == \E res_tuple \in AddCalls : AddResult(res_tuple, TRUE, 0)

NextAdd == AddResultAny

\* add_result calls of every kind on the DataSaver of the session
SpecAdd == InitAdd /\ [][NextAdd]_vars

\* the registrations of a session with every storage class: setpoint x,
\* basis b, a numeric and a text standalone, numeric dependents d1 and d2,
\* and a dependent a stored as an array
FlatRegistrations ==
    << [name |-> "x", variant |-> <<"numeric", "", "">>,
        setpoints |-> <<>>, basis |-> <<>>],
       [name |-> "b", variant |-> <<"numeric", "", "">>,
        setpoints |-> <<>>, basis |-> <<>>],
       [name |-> "s", variant |-> <<"numeric", "", "">>,
        setpoints |-> <<>>, basis |-> <<>>],
       [name |-> "t", variant |-> <<"text", "", "">>,
        setpoints |-> <<>>, basis |-> <<>>],
       [name |-> "d1", variant |-> <<"numeric", "", "">>,
        setpoints |-> <<"x">>, basis |-> <<>>],
       [name |-> "d2", variant |-> <<"numeric", "", "">>,
        setpoints |-> <<"x">>, basis |-> <<"b">>],
       [name |-> "a", variant |-> <<"array", "", "">>,
        setpoints |-> <<"x">>, basis |-> <<>>] >>

FlatGraph == RegisterAll(EmptyInterDependencies, FlatRegistrations)

InitFlat == EnteredOver(FlatGraph, Len(FlatRegistrations))

\* add_result(*[(names[i], vals[i])])
Call(names, vals) == [i \in DOMAIN names |-> PartialResult(names[i], vals[i])]

\* scalars: Python numbers, a numpy number, arrays of no dimension
ScalarInt == PyInt(1)
ScalarFloat == PyFloat(2)
ScalarNumpy == NpScalar("int", 3)
Array0dInt == NdArray("int", <<>>, <<4>>)
Array0dStr == NdArray("str", <<>>, <<7>>)
\* arrays of one element, of three, and of two rows and two columns
Array1 == NdArray("int", <<1>>, <<5>>)
Array3(n) == NdArray("int", <<3>>, <<n + 1, n + 2, n + 3>>)
Array22(n) == NdArray("int", <<2, 2>>, <<n + 1, n + 2, n + 3, n + 4>>)
ArrayStr == NdArray("str", <<3>>, <<7, 8, 9>>)

\* calls of one numeric dependent with its setpoint, and with its basis
NumericCalls ==
    {Call(<<"d1", "x">>, <<d, x>>) :
        d \in {ScalarInt, ScalarFloat, ScalarNumpy, Array0dInt},
        x \in {ScalarFloat, ScalarNumpy, Array0dInt}}
    \cup {Call(<<"x", "d1">>, <<x, d>>) :
            x \in {ScalarInt, Array3(10), Array22(10), Array0dStr},
            d \in {Array1, Array3(20), Array22(20), PyList("int", <<6, 7, 8>>)}}
    \cup {Call(<<"d2", "x", "b">>, <<d, x, b>>) :
            d \in {ScalarInt, Array3(30)},
            x \in {ScalarFloat, Array3(10)},
            b \in {ScalarNumpy, Array3(40)}}

\* calls that give a Variable a value of another class
WrongTypeCalls ==
    { Call(<<"x", "d1">>, <<PyStr(7), ScalarInt>>),
      Call(<<"x", "d1">>, <<ScalarInt, PyStr(7)>>),
      Call(<<"x", "d1">>, <<Array0dStr, ScalarInt>>),
      Call(<<"x", "d1">>, <<ScalarInt, ArrayStr>>),
      Call(<<"s">>, <<PyStr(7)>>),
      Call(<<"s">>, <<Array0dStr>>),
      Call(<<"t">>, <<ScalarInt>>),
      Call(<<"t">>, <<ArrayStr>>),
      Call(<<"t">>, <<PyList("int", <<1, 2>>)>>),
      Call(<<"x", "a">>, <<ScalarInt, ScalarInt>>),
      Call(<<"x", "a">>, <<ScalarInt, ArrayStr>>),
      Call(<<"x", "a">>, <<ScalarInt, PyList("str", <<7, 8>>)>>) }

\* calls of the dependent stored as an array
ArrayCalls ==
    {Call(<<"x", "a">>, <<x, a>>) :
        x \in {ScalarInt, Array0dInt, Array3(10), PyList("int", <<1, 2, 3>>)},
        a \in {Array3(50), PyList("int", <<6, 7, 8>>)}}

\* calls of the standalones
StandaloneCalls ==
    {Call(<<"s">>, <<v>>) : v \in {ScalarInt, Array1, Array3(0)}}
    \cup {Call(<<"t">>, <<v>>) :
            v \in {PyStr(7), PyList("str", <<7, 8>>), PyList("str", <<>>)}}
    \cup {Call(<<"t", "s">>, <<PyList("str", <<7, 8>>), ScalarFloat>>),
          Call(<<"s", "t", "x", "d1">>,
               <<ScalarInt, PyStr(9), ScalarInt, ScalarFloat>>)}

FlatCalls == NumericCalls \cup WrongTypeCalls \cup ArrayCalls \cup StandaloneCalls

AddResultFlat == \E res_tuple \in FlatCalls : AddResult(res_tuple, TRUE, 0)

FlushFlat == FlushData(TRUE)

NextFlat == AddResultFlat \/ FlushFlat

\* one measurement point after the other, of every storage class and kind
\* of value, with flushes in between
SpecFlat == InitFlat /\ [][NextFlat]_vars

----------------------------------------------------------------------------
(* Claims about the Measurement, checked under SpecMeas *)

\* the set of known Variables of a graph
KnownVariables(g) == {IdToParamspec(g)[n] : n \in DOMAIN IdToParamspec(g)}

AllKnownNames(g, names) == \A i \in DOMAIN names : names[i] \in DOMAIN IdToParamspec(g)

C7_WitnessConflict ==
    /\ mLast.op = "register"
    /\ mLast.ps.name \in DOMAIN IdToParamspec(mLast.pre)
    /\ IdToParamspec(mLast.pre)[mLast.ps.name] # mLast.ps
    /\ mLast.outcome # "none"

\* C8: the graph a Runner was handed by run() stays the value it was at the
\* run() call, whatever is registered or unregistered on the Measurement
\* afterwards.
C8_RunnerGraphFrozen ==
    rState # "none" => heap[rInterdeps] = rGraphAtRun

\* the Measurement's graph has moved on after run()
C8_Witness ==
    /\ rState # "none"
    /\ mLast.op \in {"register", "unregister"}
    /\ mLast.outcome = "none"
    /\ heap[mInterdeps] # rGraphAtRun
    /\ rGraphAtRun # EmptyInterDependencies

\* C9: every Variable an edge of the Measurement's graph names as a setpoint
\* or as a basis is a known Variable of that graph.
C9_EdgesReferenceKnown ==
    LET g == heap[mInterdeps]
    IN \A p \in TreeLeafs(g.dependencies) \cup TreeLeafs(g.inferences) :
          IsKnown(g, p)

\* a graph with a setpoint edge and a basis edge
C9_Witness ==
    LET g == heap[mInterdeps]
    IN /\ TreeLeafs(g.dependencies) # {}
       /\ TreeLeafs(g.inferences) # {}

\* an unregistration dropped a Variable that edges named
C9_WitnessUnregister ==
    /\ mLast.op = "unregister"
    /\ mLast.ps.name \in {p.name : p \in TreeLeafs(mLast.pre.dependencies)}
    /\ heap[mInterdeps] # mLast.pre

----------------------------------------------------------------------------
(* Claims about a measurement session, checked under Spec *)

IsPrefix(s, t) == Len(s) <= Len(t) /\ SubSeq(t, 1, Len(s)) = s

Entered == rState \in {"entered", "exited"}

\* C1: the Records the sink has taken, followed by the Records still in the
\* buffer, are exactly the Records of the accepted add_result calls, in call
\* order, none lost and none twice.
C1_SinkThenBufferIsAccepted ==
    Entered => dsSink \o dsResults = gProduced

\* C2: a flush whose sink raises lets no exception out and leaves the buffer
\* as it was, so the Records of a failed flush stay at the front of the
\* buffer until a flush succeeds; every flush hands the sink the whole buffer,
\* the Records of the failed flush first and those enqueued since after them.
C2_FailedFlushKeepsBuffer ==
    /\ sLast.flush = "fail" =>
          /\ sLast.outcome = "none"
          /\ dsResults = sLast.pre \o sLast.enq
          /\ dsResults # <<>>
    /\ IsPrefix(gFailedBuffer, dsResults)
    /\ sLast.flush \in {"ok", "fail"} =>
          /\ sLast.handed = sLast.pre \o sLast.enq
          /\ IsPrefix(gFailedBuffer, sLast.handed)
    /\ sLast.flush = "ok" => dsResults = <<>>

\* a flush succeeded after a failed one, and handed over two Records at once
C2_Witness ==
    /\ sLast.flush = "ok"
    /\ gFlushFailed
    /\ Len(sLast.handed) >= 2
    /\ dsSink = sLast.handed

\* a flush triggered by add_result failed with Records from an earlier call
\* in the buffer
C2_WitnessInAddResult ==
    /\ sLast.op = "add_result"
    /\ sLast.flush = "fail"
    /\ sLast.pre # <<>>
    /\ sLast.enq # <<>>

\* C4: leaving the measurement context runs one last flush, whether or not
\* the body raised and whatever earlier flushes did; that flush hands the
\* sink all the Records the buffer holds.
C4_ExitFlushes ==
    sLast.op = "exit" =>
        /\ sLast.flush # "none"
        /\ sLast.pre # <<>> =>
              /\ sLast.flush \in {"ok", "fail"}
              /\ sLast.handed = sLast.pre
        /\ sLast.flush = "ok" => dsResults = <<>> /\ dsSink # <<>>

\* the body raised, an earlier flush had failed, and the flush at exit
\* delivered the Records
C4_Witness ==
    /\ sLast.op = "exit"
    /\ sLast.exc = "Exception"
    /\ gFlushFailed
    /\ sLast.pre # <<>>
    /\ sLast.flush = "ok"

\* the time add_result compares with the write period, in microseconds
ElapsedMicros(ticks) == Float(ticks * TickMicros)

AcceptedAddResult == sLast.op = "add_result" /\ sLast.outcome = "none"

\* C5 as stated: an accepted add_result flushes exactly when the time since
\* the previous flush, whoever asked for it, exceeds write_period.
C5_FlushSinceAnyFlush ==
    AcceptedAddResult =>
        (sLast.flush # "none" <=>
            FloatGT(ElapsedMicros(sLast.elapsedAny), dsWritePeriod))

\* C5: an accepted add_result appends its Records to the buffer and then,
\* within the call, flushes exactly when the time since the DataSaver was
\* made, or since the last flush that add_result itself triggered, exceeds
\* write_period; the flush sees the Records just appended.
C5_FlushSinceTriggeredFlush ==
    AcceptedAddResult =>
        /\ sLast.flush # "none" <=>
              FloatGT(ElapsedMicros(sLast.elapsedTrig), dsWritePeriod)
        /\ sLast.flush \in {"ok", "fail"} =>
              sLast.handed = sLast.pre \o sLast.enq
        /\ sLast.flush = "none" => dsResults = sLast.pre \o sLast.enq

\* add_result flushed although a flush the user asked for had come in less
\* than a write period before
C5_Witness ==
    /\ AcceptedAddResult
    /\ sLast.flush = "ok"
    /\ sLast.enq # <<>>
    /\ sLast.elapsedAny < sLast.elapsedTrig
    /\ ~FloatGT(ElapsedMicros(sLast.elapsedAny), dsWritePeriod)

\* add_result did not flush when the write period had just been reached
C5_WitnessAtPeriod ==
    /\ AcceptedAddResult
    /\ sLast.flush = "none"
    /\ ElapsedMicros(sLast.elapsedTrig) = dsWritePeriod

\* write_period cannot be compared as a number of at least 1 ms
BelowFloor(wp) == ~FloatGE(wp, Float(MinWritePeriod))

\* C6: setting write_period to a non-number or to less than 1 ms is rejected
\* and the previous value stays; the DataSaver's write period is at least
\* 1 ms, and 5 s when none was configured.
C6_WritePeriodFloor ==
    /\ (mLast.op = "set_write_period" /\ BelowFloor(mLast.wpIn)) =>
          /\ mLast.outcome # "none"
          /\ mWritePeriod = mLast.wpPre
    /\ Entered =>
          /\ FloatGE(dsWritePeriod, Float(MinWritePeriod))
          /\ mWritePeriod = None => dsWritePeriod = Float(DefaultWritePeriod)

----------------------------------------------------------------------------
(* Claims about add_result, checked under SpecAdd *)

\* the names a call gives values for
Submitted(call) == {call[i].name : i \in DOMAIN call}

\* the names of the setpoints and of the basis of a Variable
Required(g, name) ==
    LET ps == IdToParamspec(g)[name]
    IN {p.name : p \in (IF ps \in DOMAIN g.dependencies
                        THEN Range(g.dependencies[ps]) ELSE {})
                       \cup (IF ps \in DOMAIN g.inferences
                             THEN Range(g.inferences[ps]) ELSE {})}

\* C3: an add_result call that raises leaves the buffer as it was before the
\* call, also when the call names several dependents and only a later group
\* is at fault.
C3_RejectedCallLeavesBuffer ==
    (sLast.op = "add_result" /\ sLast.outcome # "none") =>
        dsResults = sLast.pre

\* C10: add_result on registered names fails with the ValueError for missing
\* parameters exactly when a submitted Variable has a setpoint or a basis the
\* call gives no value for, whatever the values given are.
C10_MissingRequired ==
    LET g == heap[rInterdeps]
        names == Submitted(sLast.call)
    IN (sLast.op = "add_result" /\ names \subseteq DOMAIN IdToParamspec(g)) =>
          (sLast.outcome = "ValueError: some required parameters are missing"
             <=> \E n \in names : ~(Required(g, n) \subseteq names))

\* a derived Variable was submitted with its setpoint but without its basis
C10_Witness ==
    /\ sLast.op = "add_result"
    /\ sLast.outcome = "ValueError: some required parameters are missing"
    /\ Submitted(sLast.call) = {"x", "d2"}

\* the result dict add_result validates for a call
ResultsDictOf(call) == UnpackAll(heap[rInterdeps], call, EmptyFcn).dict

\* the call got as far as the shape check: every name known, nothing missing
ReachedShapeCheck(call) ==
    /\ UnpackAll(heap[rInterdeps], call, EmptyFcn).err = "none"
    /\ ValidateSubset(heap[rInterdeps], DOMAIN ResultsDictOf(call)) = "none"

\* the error naming a dependent, a setpoint and their shapes in the call
ShapeErrorOf(call, toplevel_param, setpoint) ==
    ShapeMismatchError(toplevel_param,
                       Shape(ResultsDictOf(call)[toplevel_param]),
                       setpoint, Shape(ResultsDictOf(call)[setpoint]))

\* every shape error that could name two Variables of the call
ShapeErrorsOf(call) ==
    {ShapeErrorOf(call, p, q) : p \in DOMAIN ResultsDictOf(call),
                                q \in DOMAIN ResultsDictOf(call)}

\* every setpoint and basis had a value, and the call failed on the values
C10_WitnessValues ==
    /\ sLast.op = "add_result"
    /\ Submitted(sLast.call) = {"x", "d1", "d2", "b"}
    /\ sLast.outcome \in {"ValueError: wrong type"} \cup ShapeErrorsOf(sLast.call)

\* the pairs of a dependent of the call and one of its setpoints whose shape
\* is neither the shape of the dependent nor ()
ShapeMismatches(call) ==
    LET g == heap[rInterdeps]
        dict == ResultsDictOf(call)
    IN {pair \in (DOMAIN g.dependencies \cap DOMAIN dict) \X DOMAIN dict :
           /\ pair[2] \in Range(g.dependencies[pair[1]])
           /\ Shape(dict[pair[2]]) \notin {<<>>, Shape(dict[pair[1]])}}

\* C11: a call that reaches the shape check is rejected with an error naming
\* a dependent, one of its setpoints and their shapes exactly when some
\* setpoint of a dependent of the call has a shape that is neither the
\* dependent's nor (); the rejected call enqueues nothing.
C11_ShapeMismatchRejected ==
    (sLast.op = "add_result" /\ ReachedShapeCheck(sLast.call)) =>
        IF ShapeMismatches(sLast.call) = {}
        THEN sLast.outcome \notin ShapeErrorsOf(sLast.call)
        ELSE /\ sLast.outcome \in
                  {ShapeErrorOf(sLast.call, pair[1], pair[2]) :
                      pair \in ShapeMismatches(sLast.call)}
             /\ dsResults = sLast.pre

\* an array dependent of 4 elements with a setpoint of 2 was rejected
C11_Witness ==
    /\ sLast.op = "add_result"
    /\ sLast.outcome =
          "ValueError: Incompatible shapes. Parameter d2 has shape <<4>>, but its setpoint x has shape <<2>>."

\* an array dependent with a scalar setpoint was accepted
C11_WitnessScalar ==
    /\ AcceptedAddResult
    /\ Submitted(sLast.call) = {"x", "d1"}
    /\ Shape(ResultsDictOf(sLast.call)[IdToParamspec(heap[rInterdeps])["d1"]]) = <<2>>
    /\ Shape(ResultsDictOf(sLast.call)[IdToParamspec(heap[rInterdeps])["x"]]) = <<>>
    /\ Len(sLast.enq) = 2

----------------------------------------------------------------------------
(* Claims about validation and flattening, checked under SpecFlat *)

\* the payload a storage class takes: a number or an array of numbers for
\* numeric, a string or a sequence of strings for text, an array or a
\* sequence of numbers for array
PayloadOfClass(ps, v) ==
    CASE ps.type = "numeric" -> v.dtype \in {"int", "float"}
      [] ps.type = "text" ->
            /\ v.dtype = "str"
            /\ v.kind \in {"str", "list", "tuple"}
      [] ps.type = "array" ->
            /\ v.kind \in {"ndarray", "list", "tuple"}
            /\ v.dtype \in {"int", "float"}
      [] OTHER -> TRUE

\* the call got as far as the type check
ReachedTypeCheck(call) ==
    ReachedShapeCheck(call) /\ ShapeMismatches(call) = {}

\* the Variable of the DataSaver's graph under a name
Variable(name) == IdToParamspec(heap[rInterdeps])[name]

\* C12: a call that reaches the type check fails it exactly when some
\* payload is not of the storage class of its Variable (a string for a
\* numeric Variable also when wrapped in an array of no dimension), so no
\* accepted call holds such a payload; a numeric dependent given an array of
\* one element yields one Record with a scalar under its name.
C12_TypesOfStorageClass ==
    (sLast.op = "add_result" /\ ReachedTypeCheck(sLast.call)) =>
        LET dict == ResultsDictOf(sLast.call)
        IN /\ sLast.outcome = "ValueError: wrong type" <=>
                 \E ps \in DOMAIN dict : ~PayloadOfClass(ps, dict[ps])
           /\ sLast.outcome = "none" =>
                 \A ps \in DOMAIN dict : PayloadOfClass(ps, dict[ps])
           /\ (/\ Submitted(sLast.call) = {"x", "d1"}
               /\ dict[Variable("d1")].kind = "ndarray"
               /\ Len(dict[Variable("d1")].data) = 1
               /\ PayloadOfClass(Variable("x"), dict[Variable("x")])) =>
                 /\ sLast.outcome = "none"
                 /\ Len(sLast.enq) = 1
                 /\ Shape(sLast.enq[1]["d1"]) = <<>>
                 /\ sLast.enq[1]["d1"].data = dict[Variable("d1")].data

-----------------------------------------------------------------------------
(* add_result over array and multi producers, from an entered DataSaver *)

Numeric(name, setpoints) ==
    [name |-> name, variant |-> <<"numeric", "", "">>,
     setpoints |-> setpoints, basis |-> <<>>]

\* what register_parameter leaves for: arr, an ArrayParameter of two unnamed
\* axes; vec, one of a named axis; cube, one of three named axes; p and r,
\* the scalar sub-values of a MultiParameter; q, a sub-value of one unnamed
\* axis
UnpackRegistrations ==
    << Numeric("arr_setpoint_0", <<>>), Numeric("arr_setpoint_1", <<>>),
       Numeric("arr", <<"arr_setpoint_0", "arr_setpoint_1">>),
       Numeric("freq", <<>>), Numeric("vec", <<"freq">>),
       Numeric("c0", <<>>), Numeric("c1", <<>>), Numeric("c2", <<>>),
       Numeric("cube", <<"c0", "c1", "c2">>),
       Numeric("p", <<>>), Numeric("r", <<>>),
       Numeric("q_setpoint_0", <<>>), Numeric("q", <<"q_setpoint_0">>) >>

UnpackGraph == RegisterAll(EmptyInterDependencies, UnpackRegistrations)

InitUnpack == EnteredOver(UnpackGraph, Len(UnpackRegistrations))

\* coordinate arrays: of two and of three points, and the three points
\* given once per point of an outer axis
Axis2 == NdArray("int", <<2>>, <<10, 20>>)
Axis3 == NdArray("int", <<3>>, <<1, 2, 3>>)
Axis23 == NdArray("int", <<2, 3>>, <<1, 2, 3, 4, 5, 6>>)
Axis22 == NdArray("int", <<2, 2>>, <<4, 5, 0, 0>>)
Axis222 == NdArray("int", <<2, 2, 2>>, <<7, 8, 0, 0, 0, 0, 0, 0>>)
Payload23 == NdArray("int", <<2, 3>>, <<61, 62, 63, 64, 65, 66>>)
Payload222 == NdArray("int", <<2, 2, 2>>, <<71, 72, 73, 74, 75, 76, 77, 78>>)

\* calls of one ArrayParameter
ArrayCallsUnpack ==
    { <<ArrayResult("arr", Some(<<Axis2, Axis3>>), PyNone, Payload23)>>,
      <<ArrayResult("arr", Some(<<Axis2, Axis23>>), PyNone, Payload23)>>,
      <<ArrayResult("arr", Some(<<Axis3, Axis2>>), PyNone, Payload23)>>,
      <<ArrayResult("arr", PyNone, PyNone, Payload23)>>,
      <<ArrayResult("vec", Some(<<Axis3>>), Some(<<"freq">>), Array3(80))>>,
      <<ArrayResult("vec", Some(<<Axis3>>), Some(<<"nofreq">>), Array3(80))>>,
      <<ArrayResult("vec", Some(<<Axis3>>), PyNone, Array3(80))>>,
      <<ArrayResult("cube", Some(<<Axis2, Axis22, Axis222>>),
                    Some(<<"c0", "c1", "c2">>), Payload222)>>,
      <<ArrayResult("ghost", Some(<<Axis3>>), Some(<<"freq">>), Array3(80))>>,
      <<ArrayResult("ghost", PyNone, PyNone, Array3(80))>> }

\* calls of one MultiParameter
MultiCallsUnpack ==
    { <<MultiResult("m", <<"p", "r">>, <<<<>>, <<>>>>, Some(<<<<>>, <<>>>>),
                    <<PyNone, PyNone>>, <<PyInt(1), PyFloat(2)>>)>>,
      <<MultiResult("m", <<"p", "r">>, <<<<>>, <<>>>>, PyNone,
                    <<PyNone, PyNone>>, <<PyInt(1), PyFloat(2)>>)>>,
      <<MultiResult("m", <<"p", "ghost">>, <<<<>>, <<>>>>, Some(<<<<>>, <<>>>>),
                    <<PyNone, PyNone>>, <<PyInt(1), PyFloat(2)>>)>>,
      <<MultiResult("m", <<"p", "q">>, <<<<>>, <<2>>>>,
                    Some(<<<<>>, <<Axis2>>>>), <<PyNone, PyNone>>,
                    <<PyInt(1), NdArray("int", <<2>>, <<91, 92>>)>>)>>,
      <<MultiResult("m", <<"q", "ghost">>, <<<<2>>, <<>>>>,
                    Some(<<<<Axis2>>, <<>>>>), <<Some(<<"nosuch">>), PyNone>>,
                    <<NdArray("int", <<2>>, <<91, 92>>), PyInt(1)>>)>>,
      <<MultiResult("m", <<"ghost", "p">>, <<<<>>, <<>>>>, PyNone,
                    <<PyNone, PyNone>>, <<PyInt(1), PyFloat(2)>>)>> }

\* calls of plain parameters, and of a plain parameter next to a producer
PlainCallsUnpack ==
    { Call(<<"u">>, <<PyInt(1)>>),
      Call(<<"r", "u">>, <<PyInt(1), PyInt(2)>>),
      Call(<<"u", "w">>, <<PyInt(1), PyInt(2)>>),
      Call(<<"freq", "vec">>, <<PyInt(1), PyInt(2)>>),
      Call(<<"r">>, <<PyInt(4)>>),
      <<ArrayResult("vec", Some(<<Axis3>>), Some(<<"freq">>), Array3(80)),
        PartialResult("u", PyInt(1))>>,
      <<PartialResult("u", PyInt(1)),
        ArrayResult("vec", PyNone, PyNone, Array3(80))>>,
      <<PartialResult("p", PyInt(1)),
        ArrayResult("vec", Some(<<Axis3>>), Some(<<"freq">>), Array3(80))>>,
      Call(<<"r", "r">>, <<PyInt(4), PyInt(5)>>),
      <<ArrayResult("vec", Some(<<Axis3>>), Some(<<"freq">>), Array3(80)),
        PartialResult("freq", Array3(90))>>,
      <<PartialResult("freq", Array3(90)),
        ArrayResult("vec", Some(<<Axis3>>), Some(<<"freq">>), Array3(80))>> }

UnpackCalls == ArrayCallsUnpack \cup MultiCallsUnpack \cup PlainCallsUnpack

AddResultUnpack == \E res_tuple \in UnpackCalls : AddResult(res_tuple, TRUE, 0)

FlushUnpack == FlushData(TRUE)

NextUnpack == AddResultUnpack \/ FlushUnpack

SpecUnpack == InitUnpack /\ [][NextUnpack]_vars

-----------------------------------------------------------------------------
(* Claims about unpacking, checked under SpecUnpack *)

\* the names a partial result is looked up under: the string form of its
\* parameter, for a MultiParameter the names of its sub-values
Identities(partial_result) ==
    IF Producer(partial_result) = "MultiParameter"
    THEN Range(partial_result.names)
    ELSE {partial_result.name}

\* the identities of a call that are no Variable of the DataSaver's graph
Unregistered(call) ==
    {n \in UNION {Identities(call[i]) : i \in DOMAIN call} :
        n \notin DOMAIN IdToParamspec(heap[rInterdeps])}

\* the names an array or multi producer looks its setpoints up under
SetpointNamesOf(partial_result) ==
    IF Producer(partial_result) = "ArrayParameter"
    THEN {SetpointName(partial_result.setpoint_full_names,
                       partial_result.name \o "_setpoint", i - 1) :
             i \in DOMAIN partial_result.setpoints.v}
    ELSE UNION {{SetpointName(partial_result.setpoint_full_names[k],
                              partial_result.names[k] \o "_setpoint", i - 1) :
                    i \in DOMAIN partial_result.setpoints.v[k]} :
                 k \in {j \in DOMAIN partial_result.shapes :
                           partial_result.shapes[j] # <<>>}}

\* the RuntimeErrors the producers of a call can raise over their setpoints:
\* setpoints that are None, a setpoint name that is no Variable
SetpointFailures(call) ==
    LET producers == {i \in DOMAIN call : Producer(call[i]) # "Parameter"}
    IN {WithoutSetpointsError(call[i].name) :
           i \in {j \in producers : ~call[j].setpoints.some}}
       \cup
       {NoSetpointsRegisteredError(call[i].name) :
           i \in {j \in producers :
                    /\ call[j].setpoints.some
                    /\ ~(SetpointNamesOf(call[j]) \subseteq
                           DOMAIN IdToParamspec(heap[rInterdeps]))}}

C13_WitnessWithoutSetpoints ==
    /\ sLast.op = "add_result"
    /\ Unregistered(sLast.call) = {"ghost"}
    /\ sLast.outcome = WithoutSetpointsError("ghost")

\* a registered name before an unregistered one: the refusal names the
\* unregistered one
C13_WitnessSecond ==
    /\ sLast.op = "add_result"
    /\ Submitted(sLast.call) = {"r", "u"}
    /\ sLast.outcome = UnknownParameterError("u")

-----------------------------------------------------------------------------
(* Claims about flattening, checked under SpecFlat *)

\* the value a call gives for a name
ValueIn(call, name) == call[CHOOSE i \in DOMAIN call : call[i].name = name].val

\* a number of no dimension: a Python or numpy number, an array of shape ()
ScalarNumber(v) == Shape(v) = <<>> /\ v.dtype \in {"int", "float"}

\* the call gives one value each for a numeric dependent and for exactly
\* its setpoints and its basis
GroupCallOf(call, name) ==
    /\ Submitted(call) \subseteq DOMAIN IdToParamspec(heap[rInterdeps])
    /\ name \in Submitted(call)
    /\ Variable(name) \in DOMAIN heap[rInterdeps].dependencies
    /\ Variable(name).type = "numeric"
    /\ Submitted(call) = {name} \cup Required(heap[rInterdeps], name)
    /\ Len(call) = Cardinality(Submitted(call))

\* the last operation was add_result for one point: a numeric dependent
\* and its group, every value a scalar
ScalarPoint(last) ==
    /\ last.op = "add_result"
    /\ \E D \in Submitted(last.call) : GroupCallOf(last.call, D)
    /\ \A n \in Submitted(last.call) : ScalarNumber(ValueIn(last.call, n))

\* rec is the Record of the point of a call: under every name the scalar
\* submitted for it (an array of shape () as the float it holds)
PointRecord(rec, call) ==
    /\ DOMAIN rec = Submitted(call)
    /\ \A n \in Submitted(call) :
          IF ValueIn(call, n).kind = "ndarray"
          THEN rec[n] = PyFloat(ValueIn(call, n).data[1])
          ELSE rec[n] = ValueIn(call, n)

C14_WitnessBasis ==
    /\ sLast.op = "flush"
    /\ sCalls = 1
    /\ sLast.handed =
          <<[d2 |-> PyInt(1), x |-> PyFloat(2), b |-> NpScalar("int", 3)]>>

C14_WitnessArray0d ==
    /\ sLast.op = "flush"
    /\ sCalls = 1
    /\ sLast.handed = <<[d1 |-> PyFloat(4), x |-> PyFloat(4)]>>

\* the index of the k-th element (from 0) of an array of a shape, in
\* row-major order: the last axis varies fastest
RECURSIVE Unravel(_, _)
Unravel(k, shape) ==
    IF shape = <<>> THEN <<>>
    ELSE <<k \div Prod(Tail(shape))>> \o
         Unravel(k % Prod(Tail(shape)), Tail(shape))

\* v[idx]
RECURSIVE Offset(_, _)
Offset(idx, shape) ==
    IF idx = <<>> THEN 0
    ELSE Head(idx) * Prod(Tail(shape)) + Offset(Tail(idx), Tail(shape))

Element(v, idx) == v.data[Offset(idx, Shape(v)) + 1]

\* the last operation was add_result for an array of points: a numeric
\* dependent with a payload that is no scalar, its setpoints and its basis
\* with payloads of the same shape
ArrayPoints(last, D) ==
    /\ last.op = "add_result"
    /\ GroupCallOf(last.call, D)
    /\ Shape(ValueIn(last.call, D)) # <<>>
    /\ \A n \in Submitted(last.call) :
          /\ Shape(ValueIn(last.call, n)) = Shape(ValueIn(last.call, D))
          /\ ValueIn(last.call, n).dtype \in {"int", "float"}

\* C15: a numeric dependent submitted with an array of N elements and
\* setpoints of the same shape enqueues exactly N Records; the k-th holds,
\* under every name, the element of that payload at the k-th index in
\* row-major order (for one dimension dependent[k] with setpoint[k]).
C15_ArrayUnrolledInIndexOrder ==
    \A D \in Submitted(sLast.call) :
       ArrayPoints(sLast, D) =>
          LET shape == Shape(ValueIn(sLast.call, D))
          IN /\ sLast.outcome = "none"
             /\ Len(sLast.enq) = Prod(shape)
             /\ \A k \in 1..Prod(shape) :
                   /\ DOMAIN sLast.enq[k] = Submitted(sLast.call)
                   /\ \A n \in Submitted(sLast.call) :
                         /\ Shape(sLast.enq[k][n]) = <<>>
                         /\ sLast.enq[k][n].data =
                               <<Element(ValueIn(sLast.call, n),
                                         Unravel(k - 1, shape))>>

\* three points of d1 over x
C15_Witness ==
    /\ sLast.op = "add_result"
    /\ ArrayPoints(sLast, "d1")
    /\ Shape(ValueIn(sLast.call, "d1")) = <<3>>
    /\ sLast.enq = << [d1 |-> NpScalar("int", 21), x |-> NpScalar("int", 11)],
                      [d1 |-> NpScalar("int", 22), x |-> NpScalar("int", 12)],
                      [d1 |-> NpScalar("int", 23), x |-> NpScalar("int", 13)] >>

\* two rows and two columns of d1 over x: the point of row 1, column 0 is
\* the third Record
C15_WitnessGrid ==
    /\ sLast.op = "add_result"
    /\ ArrayPoints(sLast, "d1")
    /\ Shape(ValueIn(sLast.call, "d1")) = <<2, 2>>
    /\ Len(sLast.enq) = 4
    /\ Unravel(2, <<2, 2>>) = <<1, 0>>
    /\ sLast.enq[3] = [d1 |-> NpScalar("int", 23), x |-> NpScalar("int", 13)]

\* the last operation was add_result for an array of points of a numeric
\* dependent, its setpoints and its basis each given as a scalar or as an
\* array of the dependent's shape
BroadcastPoints(last, D) ==
    /\ last.op = "add_result"
    /\ GroupCallOf(last.call, D)
    /\ Shape(ValueIn(last.call, D)) # <<>>
    /\ \A n \in Submitted(last.call) :
          /\ Shape(ValueIn(last.call, n)) \in
                {<<>>, Shape(ValueIn(last.call, D))}
          /\ ValueIn(last.call, n).dtype \in {"int", "float"}

\* the members of a group a call gives a scalar for
ScalarValued(call, names) ==
    {n \in names : Shape(ValueIn(call, n)) = <<>>}

\* C16: for a numeric dependent with a payload of N elements, every Record
\* of the N carries, under the name of every scalar-valued setpoint and of
\* every scalar-valued basis Variable of the group, the value submitted for
\* that Variable.
C16_ScalarsBroadcast ==
    \A D \in Submitted(sLast.call) :
       BroadcastPoints(sLast, D) =>
          /\ sLast.outcome = "none"
          /\ Len(sLast.enq) = Prod(Shape(ValueIn(sLast.call, D)))
          /\ \A k \in DOMAIN sLast.enq :
                \A n \in ScalarValued(sLast.call, Submitted(sLast.call)) :
                   sLast.enq[k][n].data = ValueIn(sLast.call, n).data

\* the last operation was add_result for a dependent stored as an array,
\* its setpoints and its basis, every payload of the class of its Variable
ArrayGroup(last, D) ==
    /\ last.op = "add_result"
    /\ Submitted(last.call) \subseteq DOMAIN IdToParamspec(heap[rInterdeps])
    /\ D \in Submitted(last.call)
    /\ Variable(D) \in DOMAIN heap[rInterdeps].dependencies
    /\ Variable(D).type = "array"
    /\ Submitted(last.call) = {D} \cup Required(heap[rInterdeps], D)
    /\ Len(last.call) = Cardinality(Submitted(last.call))
    /\ ReachedTypeCheck(last.call)
    /\ \A n \in Submitted(last.call) :
          PayloadOfClass(Variable(n), ValueIn(last.call, n))

\* what the Record of an array group is to hold for a submitted value
Reshaped(v) ==
    IF Shape(v) = <<>> THEN NdArray(v.dtype, <<1>>, v.data)
    ELSE IF v.kind \in {"tuple", "list"}
         THEN NdArray(v.dtype, Shape(v), v.data)
         ELSE v

\* C17: for a dependent stored as an array, add_result enqueues exactly one
\* Record for the group, in which every scalar has become an array of one
\* element, every tuple or list an array, and every other array is as
\* submitted.
C17_ArrayGroupOneRecord ==
    \A D \in Submitted(sLast.call) :
       ArrayGroup(sLast, D) =>
          /\ sLast.outcome = "none"
          /\ Len(sLast.enq) = 1
          /\ DOMAIN sLast.enq[1] = Submitted(sLast.call)
          /\ \A n \in Submitted(sLast.call) :
                sLast.enq[1][n] = Reshaped(ValueIn(sLast.call, n))

\* the standalone Variables a call names
StandalonesOf(call) ==
    {n \in Submitted(call) : Variable(n) \in heap[rInterdeps].standalones}

\* the Records of a list that hold the one name n and nothing else
RecordsOf(recs, n) ==
    LET Holds(rec) == DOMAIN rec = {n}
    IN SelectSeq(recs, Holds)

\* C18: in an accepted call every standalone is stored on its own: a text
\* standalone given a list of K strings in K Records, one string each, in
\* the order of the list; any other standalone in exactly one Record that
\* holds the value as submitted.
C18_StandalonesOnTheirOwn ==
    (/\ sLast.op = "add_result"
     /\ sLast.outcome = "none"
     /\ Submitted(sLast.call) \subseteq
           DOMAIN IdToParamspec(heap[rInterdeps])) =>
        /\ \A n \in StandalonesOf(sLast.call) :
              LET v == ValueIn(sLast.call, n)
              IN RecordsOf(sLast.enq, n) =
                    IF Variable(n).type = "text" /\ v.kind \in {"tuple", "list"}
                    THEN [i \in 1..Len(v.data) |->
                             (n :> PyStr(v.data[i]))]
                    ELSE <<(n :> v)>>
        /\ \A k \in DOMAIN sLast.enq :
              \A n \in StandalonesOf(sLast.call) :
                 n \in DOMAIN sLast.enq[k] => DOMAIN sLast.enq[k] = {n}

\* a list of two strings for t and a number for s: two Records of t in the
\* order of the list, one of s
C18_Witness ==
    /\ sLast.op = "add_result"
    /\ sLast.outcome = "none"
    /\ StandalonesOf(sLast.call) = {"t", "s"}
    /\ RecordsOf(sLast.enq, "t") = <<[t |-> PyStr(7)], [t |-> PyStr(8)]>>
    /\ RecordsOf(sLast.enq, "s") = <<[s |-> PyFloat(2)]>>
    /\ Len(sLast.enq) = 3

\* standalones next to a dependent group: one Record each, after the
\* Record of the group
C18_WitnessWithGroup ==
    /\ sLast.op = "add_result"
    /\ sLast.outcome = "none"
    /\ StandalonesOf(sLast.call) = {"t", "s"}
    /\ Len(sLast.enq) = 3
    /\ DOMAIN sLast.enq[1] = {"x", "d1"}

\* an array for the numeric standalone s: one Record holding the array
C18_WitnessArray ==
    /\ sLast.op = "add_result"
    /\ sLast.outcome = "none"
    /\ sLast.enq = <<[s |-> Array3(0)]>>

\* a[0, .., 0, i]: the i-th coordinate of an axis given as an array of one
\* or more dimensions, read at index 0 along all outer dimensions
AxisElement(a, i) ==
    Element(a, [j \in 1..Len(Shape(a)) |-> IF j = Len(Shape(a)) THEN i ELSE 0])

\* the lengths of the axes of an array producer
AxisLengths(setpoints) ==
    [k \in DOMAIN setpoints |-> Shape(setpoints[k])[Len(Shape(setpoints[k]))]]

\* the last operation was add_result of one ArrayParameter that is
\* registered with its setpoints and has coordinates for them
ArrayProducerCall(last) ==
    /\ last.op = "add_result"
    /\ Len(last.call) = 1
    /\ Producer(last.call[1]) = "ArrayParameter"
    /\ last.call[1].setpoints.some
    /\ last.call[1].setpoints.v # <<>>
    /\ Unregistered(last.call) = {}
    /\ SetpointFailures(last.call) = {}

\* C19: unpacking an array producer gives its k-th setpoint Variable the
\* k-th grid of the meshgrid of its axes in ij order, grid_k[idx] =
\* a_k[idx[k]], an axis of more dimensions read at index 0 of its outer
\* dimensions, and gives the producer's Variable the payload; when the axis
\* lengths are the payload's shape the call is accepted and its Records
\* hold, point by point, the payload element and the coordinate of every
\* axis at that point.
C19_SetpointsAreMeshgrid ==
    ArrayProducerCall(sLast) =>
       LET p == sLast.call[1]
           axes == p.setpoints.v
           lens == AxisLengths(axes)
           dict == ResultsDictOf(sLast.call)
           spname(k) == SetpointName(p.setpoint_full_names,
                                     p.name \o "_setpoint", k - 1)
       IN /\ DOMAIN dict =
                {Variable(p.name)} \cup {Variable(spname(k)) : k \in DOMAIN axes}
          /\ dict[Variable(p.name)] = p.val
          /\ \A k \in DOMAIN axes :
                /\ Shape(dict[Variable(spname(k))]) = lens
                /\ \A j \in 0..(Prod(lens) - 1) :
                      Element(dict[Variable(spname(k))], Unravel(j, lens)) =
                         AxisElement(axes[k], Unravel(j, lens)[k])
          /\ lens = Shape(p.val) =>
                /\ sLast.outcome = "none"
                /\ Len(sLast.enq) = Prod(lens)
                /\ \A j \in 0..(Prod(lens) - 1) :
                      /\ sLast.enq[j + 1][p.name].data =
                            <<Element(p.val, Unravel(j, lens))>>
                      /\ \A k \in DOMAIN axes :
                            sLast.enq[j + 1][spname(k)].data =
                               <<AxisElement(axes[k], Unravel(j, lens)[k])>>

\* a payload of two rows and three columns, the second axis given as a
\* 2-by-3 coordinate array: six Records, the fourth is row 1, column 0
C19_Witness ==
    /\ ArrayProducerCall(sLast)
    /\ sLast.call[1].setpoints.v = <<Axis2, Axis23>>
    /\ sLast.outcome = "none"
    /\ Len(sLast.enq) = 6
    /\ sLast.enq[4] = [arr |-> NpScalar("int", 64),
                       arr_setpoint_0 |-> NpScalar("int", 20),
                       arr_setpoint_1 |-> NpScalar("int", 1)]

\* three axes: eight Records, the seventh is the point (1, 1, 0)
C19_WitnessCube ==
    /\ ArrayProducerCall(sLast)
    /\ Len(sLast.call[1].setpoints.v) = 3
    /\ sLast.outcome = "none"
    /\ Len(sLast.enq) = 8
    /\ sLast.enq[7] = [cube |-> NpScalar("int", 77),
                       c0 |-> NpScalar("int", 20),
                       c1 |-> NpScalar("int", 5),
                       c2 |-> NpScalar("int", 7)]

\* the last operation was add_result of one MultiParameter whose sub-value
\* names are all registered
BundleCall(last) ==
    /\ last.op = "add_result"
    /\ Len(last.call) = 1
    /\ Producer(last.call[1]) = "MultiParameter"
    /\ Unregistered(last.call) = {}

\* the sub-values of a bundle that have no setpoint axes
ScalarSubvalues(parameter) ==
    {i \in DOMAIN parameter.shapes : parameter.shapes[i] = <<>>}

\* C20: of a bundle that is unpacked, every sub-value of shape () is mapped
\* to its own Variable like a plain result, and a bundle all of whose
\* sub-values are of shape () is accepted: its dict holds the sub-values
\* under their Variables and nothing else.
C20_ScalarSubvaluesPlain ==
    BundleCall(sLast) =>
       LET parameter == sLast.call[1]
           unpacked == UnpackAll(heap[rInterdeps], sLast.call, EmptyFcn)
       IN /\ unpacked.err = "none" =>
                \A i \in ScalarSubvalues(parameter) :
                   unpacked.dict[Variable(parameter.names[i])] =
                      parameter.val[i]
          /\ ScalarSubvalues(parameter) = DOMAIN parameter.shapes =>
                /\ sLast.outcome = "none"
                /\ unpacked.err = "none"
                /\ DOMAIN unpacked.dict =
                      {Variable(parameter.names[i]) :
                          i \in DOMAIN parameter.names}

-----------------------------------------------------------------------------
(* Claims about the merge of partial results, checked under SpecUnpack *)

\* the names of the Variables a partial result gives values for: its
\* identities and the setpoints an array or multi producer brings along
Targets(partial_result) ==
    Identities(partial_result) \cup
    (IF Producer(partial_result) # "Parameter" /\ partial_result.setpoints.some
     THEN SetpointNamesOf(partial_result) ELSE {})

\* two partial results of the call give a value for the same Variable
DuplicateTargets(call) ==
    \E i, j \in DOMAIN call :
       i < j /\ Targets(call[i]) \cap Targets(call[j]) # {}

\* C21: an add_result call in which two partial results target the same
\* Variable, directly or through the setpoints of an array or multi
\* producer, fails; the later value does not overwrite the earlier one.
C21_DuplicateTargetFails ==
    (sLast.op = "add_result" /\ DuplicateTargets(sLast.call)) =>
        /\ sLast.outcome # "none"
        /\ sLast.enq = <<>>

-----------------------------------------------------------------------------
(* add_result with its arguments in every order, from an entered DataSaver *)

\* every order of the partial results of a call
ArgumentOrders(call) ==
    {[i \in DOMAIN call |-> call[p[i]]] : p \in Orders(DOMAIN call)}

\* the calls that are permuted: a point of d1 with the text standalone;
\* arrays of d1 and d2 over a scalar x, with the basis; arrays of x and d1
\* next to a scalar d2; a name never registered; a string for d1; two
\* points of d1; d2 without its basis
OrderBaseCalls ==
    { Call(<<"x", "d1", "t">>, <<PyInt(1), PyInt(2), PyStr(7)>>),
      Call(<<"x", "d1", "d2", "b">>,
           <<PyInt(1), NdArray("int", <<2>>, <<3, 4>>),
             NdArray("int", <<2>>, <<5, 6>>), PyInt(4)>>),
      Call(<<"x", "d1", "d2", "b">>,
           <<NdArray("int", <<2>>, <<1, 2>>), NdArray("int", <<2>>, <<3, 4>>),
             PyInt(3), PyInt(4)>>),
      Call(<<"x", "d1", "q">>, <<PyInt(1), PyInt(2), PyInt(9)>>),
      Call(<<"x", "d1">>, <<PyInt(1), PyStr(7)>>),
      Call(<<"x", "d1">>,
           <<NdArray("int", <<2>>, <<1, 2>>), NdArray("int", <<2>>, <<3, 4>>)>>),
      Call(<<"x", "d1", "d2">>, <<PyInt(1), PyInt(2), PyInt(3)>>) }

OrderCalls == UNION {ArgumentOrders(call) : call \in OrderBaseCalls}

AddResultOrder == \E res_tuple \in OrderCalls : AddResult(res_tuple, TRUE, 0)

NextOrder == AddResultOrder

SpecOrder == InitAdd /\ [][NextOrder]_vars

-----------------------------------------------------------------------------
(* Claims about the order of the arguments, checked under SpecOrder *)

\* the partial results of a call name pairwise distinct Variables
DistinctTargets(call) == Cardinality(Submitted(call)) = Len(call)

\* two lists hold the same Records, each as often
SameRecords(a, b) ==
    /\ Len(a) = Len(b)
    /\ \A rec \in Range(a) \cup Range(b) :
          Cardinality({i \in DOMAIN a : a[i] = rec}) =
             Cardinality({i \in DOMAIN b : b[i] = rec})

----------------------------------------------------------------------------
(* Registration against unknown setpoints or basis, checked under SpecMeas *)

\* the registration names a setpoint / a basis Variable the graph before it
\* does not know
UnknownSetpoint == ~AllKnownNames(mLast.pre, mLast.sps)

UnknownBasis == ~AllKnownNames(mLast.pre, mLast.bss)

C23_WitnessBasis ==
    /\ mLast.op = "register"
    /\ mLast.sps # <<>>
    /\ ~UnknownSetpoint
    /\ UnknownBasis
    /\ mLast.outcome = "ValueError: Unknown basis parameter"

----------------------------------------------------------------------------
(* Unregistration, checked under SpecMeas *)

\* add_result((name, 1)) of a DataSaver over graph g is refused with the
\* ValueError for an unknown parameter
RejectedAsUnknown(g, name) ==
    UnpackAll(g, Call(<<name>>, <<PyInt(1)>>), EmptyFcn).err =
        UnknownParameterError(name)

\* C24: after unregister_parameter(p) of a registered Variable p, p is no
\* known Variable of the Measurement, a DataSaver over the graph (the one a
\* run() started now hands on) refuses a result for p as unknown, and every
\* other Variable known before is still known; unregistering a name that is
\* not registered raises nothing and leaves the graph as it was.
C24_UnregisterDropsOnlyThat ==
    mLast.op = "unregister" =>
        LET p == mLast.ps.name
            before == IdToParamspec(mLast.pre)
            g == heap[mInterdeps]
        IN /\ mLast.outcome = "none"
           /\ IF p \in DOMAIN before
              THEN /\ p \notin DOMAIN IdToParamspec(g)
                   /\ RejectedAsUnknown(g, p)
                   /\ KnownVariables(g) = KnownVariables(mLast.pre) \ {before[p]}
                   /\ \A n \in DOMAIN before \ {p} : ~RejectedAsUnknown(g, n)
              ELSE g = mLast.pre

\* a setpoint that a dependent names was unregistered, two other Variables
\* staying behind
C24_Witness ==
    /\ mLast.op = "unregister"
    /\ mLast.ps.name \in {p.name : p \in TreeLeafs(mLast.pre.dependencies)}
    /\ Cardinality(KnownVariables(heap[mInterdeps])) = 1
    /\ Cardinality(KnownVariables(mLast.pre)) = 2

\* a name that is not registered was unregistered from a graph with Variables
C24_WitnessUnknown ==
    /\ mLast.op = "unregister"
    /\ mLast.ps.name \notin DOMAIN IdToParamspec(mLast.pre)
    /\ mLast.pre # EmptyInterDependencies
    /\ mLast.outcome = "none"

\* run() over a graph that knows y and not x: the Runner holds that graph,
\* and a result for x is refused
C24_WitnessRun ==
    /\ mLast.op = "run"
    /\ rGraphAtRun = heap[mInterdeps]
    /\ "x" \notin DOMAIN IdToParamspec(rGraphAtRun)
    /\ "y" \in DOMAIN IdToParamspec(rGraphAtRun)
    /\ RejectedAsUnknown(heap[rInterdeps], "x")

----------------------------------------------------------------------------
(* The buffer as a queue, checked under SpecFlat *)

\* a Record of a standalone Variable of the DataSaver's graph
StandaloneRecord(rec) ==
    \E n \in DOMAIN rec : Variable(n) \in heap[rInterdeps].standalones

\* in a list of Records, those of the dependent groups come before those of
\* the standalones
GroupsFirst(recs) ==
    \A i, j \in DOMAIN recs :
        (i < j /\ StandaloneRecord(recs[i])) => StandaloneRecord(recs[j])

\* C25: the buffer is an ordered queue. An accepted add_result call appends
\* its Records behind everything the buffer held, the Records of its
\* dependent groups before those of its standalones; a flush hands the sink
\* the whole buffer in one batch in that order, and the sink takes the batch
\* behind what it already has.
C25_BufferIsOrderedQueue ==
    [][/\ (sCalls' = sCalls + 1 /\ sLast'.outcome = "none") =>
             /\ GroupsFirst(sLast'.enq)
             /\ IF sLast'.flush \in {"ok", "fail"}
                THEN sLast'.handed = dsResults \o sLast'.enq
                ELSE /\ dsResults' = dsResults \o sLast'.enq
                     /\ dsSink' = dsSink
       /\ (sCalls' = sCalls /\ now' = now /\ sLast'.op \in {"flush", "exit"}) =>
             /\ sLast'.flush \in {"ok", "fail"} => sLast'.handed = dsResults
             /\ sLast'.flush = "empty" => dsResults = <<>>
       /\ (sLast' # sLast /\ sLast'.flush = "ok") =>
             /\ dsSink' = dsSink \o sLast'.handed
             /\ dsResults' = <<>>]_vars

\* a call of a dependent group and two standalones on a buffer that held
\* Records: the Record of the group first, all behind the earlier ones
C25_Witness ==
    /\ sLast.op = "add_result"
    /\ sLast.outcome = "none"
    /\ sLast.pre # <<>>
    /\ Len(sLast.enq) = 3
    /\ DOMAIN sLast.enq[1] = {"x", "d1"}
    /\ StandaloneRecord(sLast.enq[2])
    /\ StandaloneRecord(sLast.enq[3])
    /\ dsResults = sLast.pre \o sLast.enq

\* a flush handed the sink the Records of two calls in one batch
C25_WitnessFlush ==
    /\ sLast.op = "flush"
    /\ sLast.flush = "ok"
    /\ sCalls = 2
    /\ Len(sLast.handed) >= 4
    /\ dsSink = sLast.handed
    /\ \E k \in DOMAIN sLast.handed : StandaloneRecord(sLast.handed[k])

----------------------------------------------------------------------------
(* The calls the DataSet sees in a session, checked under Spec *)

\* the place of a call in the life of a DataSet
EventRank(e) ==
    CASE e = "set_interdependencies" -> 0
      [] e = "mark_started" -> 1
      [] e = "subscribe" -> 2
      [] e = "add_results" -> 3
      [] e = "exitactions" -> 4
      [] e = "mark_completed" -> 5
      [] e = "unsubscribe_all" -> 6

\* the calls of a list come in the order of their ranks, none but subscribe
\* twice
RankOrdered(events) ==
    \A i, j \in DOMAIN events :
        i < j => \/ EventRank(events[i]) < EventRank(events[j])
                 \/ events[i] = "subscribe" /\ events[j] = "subscribe"

\* C26: the DataSet sees mark_started, then the subscriptions (both in
\* Runner.__enter__, which leaves an empty buffer), then add_results batches
\* (only between __enter__ and the end of __exit__), then in Runner.__exit__
\* the final flush, the exit actions, mark_completed and unsubscribe_all in
\* that order; no add_results comes before mark_started; a Runner whose graph
\* is empty fails in __enter__ with the DataSet never marked started.
C26_SinkEventOrder ==
    [][(now' = now \/ sCalls' # sCalls) =>
        LET events == dsEvents'
            seen(e) == e \in Range(events)
        IN /\ RankOrdered(events)
           /\ seen("mark_started") =>
                 /\ rState = "created" /\ rState' = "entered"
                 /\ dsSinkState = "none" /\ dsSinkState' = "started"
                 /\ dsResults' = <<>> /\ dsSink' = <<>>
           /\ seen("subscribe") => seen("mark_started")
           /\ seen("add_results") =>
                 /\ rState = "entered"
                 /\ dsSinkState = "started"
           /\ (seen("exitactions") \/ seen("mark_completed")
               \/ seen("unsubscribe_all")) =>
                 /\ rState = "entered" /\ rState' = "exited"
                 /\ seen("exitactions")
                 /\ seen("mark_completed") <=> seen("unsubscribe_all")
                 /\ sLast'.pre # <<>> => events[1] = "add_results"
           /\ (rState = "entered" /\ rState' = "entered") =>
                 events \in {<<>>, <<"add_results">>}
           /\ (rState = "created" /\ heap[rInterdeps] = EmptyInterDependencies) =>
                 /\ rState' = "failed"
                 /\ sLast'.outcome = "RuntimeError: No parameters supplied"
                 /\ ~seen("mark_started")
                 /\ dsSinkState' = "none"
           /\ (rState = "created" /\ heap[rInterdeps] # EmptyInterDependencies) =>
                 seen("mark_started")
           /\ dsSinkState' = "completed" => seen("mark_completed")]_vars

\* a session that enqueued Records was closed: the final flush, the exit
\* actions, mark_completed, unsubscribe_all
C26_Witness ==
    /\ sLast.op = "exit"
    /\ sCalls >= 1
    /\ dsEvents = <<"add_results", "exitactions", "mark_completed",
                    "unsubscribe_all">>
    /\ dsSinkState = "completed"
    /\ dsSink # <<>>

\* __enter__ of a Runner made before anything was registered
C26_WitnessEmptyGraph ==
    /\ rState = "failed"
    /\ sLast.op = "enter"
    /\ dsSinkState = "none"
    /\ dsEvents = <<>>

\* __enter__ of a Runner with a graph: mark_started, then the subscription
C26_WitnessEnter ==
    /\ rState = "entered"
    /\ sLast.op = "enter"
    /\ dsEvents = <<"set_interdependencies", "mark_started", "subscribe">>

----------------------------------------------------------------------------
(* Submitted values and the Records made of them, checked under SpecAdd *)

\* the names the Records of a list hold values under
Stored(recs) == UNION {DOMAIN recs[k] : k \in DOMAIN recs}

\* C27: every Variable an accepted add_result call gives a value for is
\* held by name in a Record the call enqueued, also a setpoint submitted
\* without its dependent.
C27_NoValueDropped ==
    (sLast.op = "add_result" /\ sLast.outcome = "none") =>
        Submitted(sLast.call) \subseteq Stored(sLast.enq)

----------------------------------------------------------------------------
(* register_parameter of producers: ArrayParameter, ParameterWithSetpoints, *)
(* MultiParameter                                                          *)

\* None in the place of the name of one axis: no Variable has it as a name
NoAxisName == "<None>"

\* the parameters handed to register_parameter: a plain Parameter; an
\* ArrayParameter of a shape with setpoint_full_names (None, or per axis a
\* name or None); a ParameterWithSetpoints with the full names of its
\* setpoint Parameters; a MultiParameter with the names and shapes of its
\* sub-values and per sub-value its setpoint_full_names
Parameter(name) == [producer |-> "Parameter", name |-> name]

ArrayParameter(name, shape, setpoint_full_names) ==
    [producer |-> "ArrayParameter", name |-> name, shape |-> shape,
     setpoint_full_names |-> setpoint_full_names]

ParameterWithSetpoints(name, setpoints) ==
    [producer |-> "ParameterWithSetpoints", name |-> name,
     setpoints |-> setpoints]

MultiParameter(name, names, shapes, setpoint_full_names) ==
    [producer |-> "MultiParameter", name |-> name, names |-> names,
     shapes |-> shapes, setpoint_full_names |-> setpoint_full_names]

\* one call of _register_parameter, labels and units left empty
Registration(name, setpoints, basis, paramtype) ==
    [name |-> name, setpoints |-> setpoints, basis |-> basis,
     paramtype |-> paramtype]

\* _register_parameter called for each registration in turn, every call
\* assigning self._interdeps; the first one that raises ends the method
RECURSIVE RegisterEach(_, _, _)
RegisterRest(r, regs, assigned) ==
    IF r.err # "none"
    THEN [err |-> r.err, g |-> r.g, assigned |-> assigned \/ r.assigned]
    ELSE RegisterEach(r.g, regs, assigned \/ r.assigned)

RegisterEach(g, regs, assigned) ==
    IF regs = <<>> THEN [err |-> "none", g |-> g, assigned |-> assigned]
    ELSE RegisterRest(RegisterParameter(g, Head(regs).name, "", "",
                                        Head(regs).setpoints, Head(regs).basis,
                                        Head(regs).paramtype),
                      Tail(regs), assigned)

\* spname of _register_arrayparameter for axis i (counted from 0)
RegisteredSetpointName(setpoint_full_names, name, i) ==
    IF setpoint_full_names.some /\ setpoint_full_names.v[i + 1] # NoAxisName
    THEN setpoint_full_names.v[i + 1]
    ELSE name \o "_setpoint_" \o ToString(i)

\* the names of the setpoints an array of a shape is registered with
RegisteredSetpointNames(setpoint_full_names, name, shape) ==
    [i \in DOMAIN shape |->
        RegisteredSetpointName(setpoint_full_names, name, i - 1)]

\* the registrations of setpoints without setpoints or basis of their own
SetpointRegistrations(spnames, paramtype) ==
    [i \in DOMAIN spnames |-> Registration(spnames[i], <<>>, <<>>, paramtype)]

\* Measurement._register_arrayparameter
RegisterArrayparameter(g, parameter, setpoints, basis, paramtype) ==
    LET spnames == RegisteredSetpointNames(parameter.setpoint_full_names,
                                           parameter.name, parameter.shape)
        my_setpoints == setpoints \o spnames
    IN RegisterEach(g, SetpointRegistrations(spnames, paramtype) \o
                       <<Registration(parameter.name, my_setpoints, basis,
                                      paramtype)>>, FALSE)

\* Measurement._register_parameter_with_setpoints
RegisterParameterWithSetpoints(g, parameter, setpoints, basis, paramtype) ==
    LET my_setpoints == setpoints \o parameter.setpoints
    IN RegisterEach(g, SetpointRegistrations(parameter.setpoints, paramtype) \o
                       <<Registration(parameter.name, my_setpoints, basis,
                                      paramtype)>>, FALSE)

\* spname of _register_multiparameter for axis j (counted from 0) of a
\* sub-value
RegisteredSubvalueSetpointName(setpoint_full_names, name, j) ==
    IF setpoint_full_names.some THEN setpoint_full_names.v[j + 1]
    ELSE name \o "_setpoint_" \o ToString(j)

\* the setpoint names of sub-value i of a MultiParameter
SubvalueSetpointNames(multiparameter, i) ==
    [j \in DOMAIN multiparameter.shapes[i] |->
        RegisteredSubvalueSetpointName(multiparameter.setpoint_full_names[i],
                                       multiparameter.names[i], j - 1)]

\* s[1] \o s[2] \o ...
RECURSIVE Flatten(_)
Flatten(s) == IF s = <<>> THEN <<>> ELSE Head(s) \o Flatten(Tail(s))

\* Measurement._register_multiparameter: the setpoints of every sub-value
\* first, then the sub-values
RegisterMultiparameter(g, multiparameter, setpoints, basis, paramtype) ==
    LET subs == DOMAIN multiparameter.shapes
        setpoints_lists ==
            [i \in subs |-> setpoints \o SubvalueSetpointNames(multiparameter, i)]
    IN RegisterEach(g,
           Flatten([i \in subs |->
                       SetpointRegistrations(
                           SubvalueSetpointNames(multiparameter, i), paramtype)])
           \o [i \in subs |->
                   Registration(multiparameter.names[i], setpoints_lists[i],
                                basis, paramtype)],
           FALSE)

\* Measurement.register_parameter: the outcome and the graph afterwards
RegisterParameterOf(g, parameter, setpoints, basis, paramtype) ==
    CASE parameter.producer = "ArrayParameter" ->
           RegisterArrayparameter(g, parameter, setpoints, basis, paramtype)
      [] parameter.producer = "ParameterWithSetpoints" ->
           RegisterParameterWithSetpoints(g, parameter, setpoints, basis,
                                          paramtype)
      [] parameter.producer = "MultiParameter" ->
           RegisterMultiparameter(g, parameter, setpoints, basis, paramtype)
      [] OTHER ->
           RegisterEach(g, <<Registration(parameter.name, setpoints, basis,
                                          paramtype)>>, FALSE)

\* the Measurement after register_parameter with outcome r
AssignRegistered(r, ps, setpoints, basis) ==
    LET a == AssignInterdeps(heap, mInterdeps, rInterdeps, r.g)
    IN /\ heap' = IF r.assigned THEN a.heap ELSE heap
       /\ mInterdeps' = IF r.assigned THEN a.ref ELSE mInterdeps
       /\ mLast' = MLast("register_parameter", r.err, ps, setpoints, basis,
                         heap[mInterdeps], None, None)
       /\ UNCHANGED <<mWritePeriod, runnerVars, saverVars, now>>

\* Measurement.register_parameter(parameter, setpoints, basis, paramtype)
RegisterParameterCall(parameter, setpoints, basis, paramtype) ==
    AssignRegistered(RegisterParameterOf(heap[mInterdeps], parameter,
                                         setpoints, basis, paramtype),
                     ParamSpecBase(parameter.name, paramtype, "", ""),
                     setpoints, basis)

\* the parameters of the registration session: a plain one; ArrayParameters
\* without setpoint names, with a name for every axis, with a name for the
\* first axis only; a ParameterWithSetpoints; MultiParameters with a scalar
\* and an unnamed axis, and with a named axis
ParamY == Parameter("y")
ParamArr == ArrayParameter("arr", <<2>>, PyNone)
ParamBrr == ArrayParameter("brr", <<2, 3>>, Some(<<"brr_a", "brr_b">>))
ParamCrr == ArrayParameter("crr", <<2, 3>>, Some(<<"crr_a", NoAxisName>>))
ParamW == ParameterWithSetpoints("w", <<"w_x">>)
ParamM == MultiParameter("m", <<"p", "q">>, <<<<>>, <<2>>>>, <<PyNone, PyNone>>)
ParamN == MultiParameter("n", <<"u">>, <<<<2>>>>, <<Some(<<"u_a">>)>>)

RegParameters == {ParamY, ParamArr, ParamBrr, ParamCrr, ParamW, ParamM, ParamN}

\* add_result((parameter, val)) of an ArrayParameter with its setpoints
ArrayResultOf(parameter, setpoints, val) ==
    ArrayResult(parameter.name, Some(setpoints),
                parameter.setpoint_full_names, val)

\* add_result((parameter, data)) of a MultiParameter with its setpoints
MultiResultOf(parameter, setpoints, data) ==
    MultiResult(parameter.name, parameter.names, parameter.shapes,
                Some(setpoints), parameter.setpoint_full_names, data)

\* one call for each producer of the session
RegCalls ==
    { <<ArrayResultOf(ParamArr, <<Axis2>>, NdArray("int", <<2>>, <<91, 92>>))>>,
      <<ArrayResultOf(ParamBrr, <<Axis2, Axis23>>, Payload23)>>,
      <<ArrayResultOf(ParamCrr, <<Axis2, Axis23>>, Payload23)>>,
      <<MultiResultOf(ParamM, <<<<>>, <<Axis2>>>>,
                      <<PyInt(1), NdArray("int", <<2>>, <<91, 92>>)>>)>>,
      <<MultiResultOf(ParamN, <<<<Axis2>>>>,
                      <<NdArray("int", <<2>>, <<93, 94>>)>>)>>,
      Call(<<"y">>, <<PyInt(1)>>) }

RegisterReg ==
    \E parameter \in RegParameters, basis \in {<<>>, <<"y">>},
       paramtype \in {"numeric", "array"} :
        /\ rState = "none"
        /\ Counted
        /\ RegisterParameterCall(parameter, <<>>, basis, paramtype)

RunReg == rState = "none" /\ mOps' = mOps /\ Run

AddResultReg == \E res_tuple \in RegCalls : AddResult(res_tuple, TRUE, 0)

NextReg == RegisterReg \/ RunReg \/ Enter \/ AddResultReg

\* producers registered with register_parameter, then a run that adds their
\* results
SpecReg == InitMeas /\ [][NextReg]_vars

\* C28: a register_parameter call that fails leaves the Measurement's graph
\* as it was before the call: none of the setpoint Variables it synthesizes
\* has been added.
C28_RegisterAllOrNothing ==
    (mLast.op = "register_parameter" /\ mLast.outcome # "none") =>
        heap[mInterdeps] = mLast.pre

\* C29: add_result of an array producer or a bundle that register_parameter
\* registered looks every setpoint axis up under the name registration gave
\* it, and does not fail with "No setpoints registered".
C29_SameSetpointNames ==
    (/\ sLast.op = "add_result"
     /\ Len(sLast.call) = 1
     /\ Producer(sLast.call[1]) # "Parameter"
     /\ Identities(sLast.call[1]) \subseteq
           DOMAIN IdToParamspec(heap[rInterdeps])) =>
        LET parameter == sLast.call[1]
        IN /\ sLast.outcome # NoSetpointsRegisteredError(parameter.name)
           /\ SetpointNamesOf(parameter) \subseteq
                 DOMAIN IdToParamspec(heap[rInterdeps])
           /\ Producer(parameter) = "ArrayParameter" =>
                 \A i \in DOMAIN parameter.setpoints.v :
                    SetpointName(parameter.setpoint_full_names,
                                 parameter.name \o "_setpoint", i - 1) =
                    RegisteredSetpointName(parameter.setpoint_full_names,
                                           parameter.name, i - 1)

----------------------------------------------------------------------------
(* The buffer at mark_completed, checked under Spec *)

\* C30: when the DataSet has been marked completed the DataSaver's buffer
\* holds no Records: all of them were taken by the sink.
C30_CompletedMeansFlushed ==
    dsSinkState = "completed" => dsResults = <<>>

====
